---- MODULE Spec2Model ----
(***************************************************************************)
(* Model of the browserinfo server endpoints, address utilities and the     *)
(* DNSSEC probes of the BrowserInfo island.                                *)
(*                                                                         *)
(*   GET /api/dnssec   src/routes/index.tsx (lines 32-201)                 *)
(*   GET /api/ip       src/unnamed/part_000 (explicit `ip` parameter)      *)
(*   GET /api/ip       src/routes/api/ip.ts (`version` parameter)          *)
(*   expandIPv6, PTR name          src/routes/api/ip.ts (lines 49-103)     *)
(*   isPrivateIPv4, isPrivateIPv6  src/islands/BrowserInfo.tsx (521-546)   *)
(*   runDnssecTests                src/islands/BrowserInfo.tsx (135-198)   *)
(*                                                                         *)
(* Representation of JavaScript values:                                    *)
(*   - an optional value (null / undefined / absent header) is a sequence  *)
(*     of length at most one: None is <<>>, Some(v) is <<v>>;              *)
(*   - enum-like strings (algorithm, test type, domain) are TLA+ strings;  *)
(*   - address texts are sequences of one-character strings, so that       *)
(*     split, trim, includes and the regular expression test are computed; *)
(*   - error messages are sequences of words, so that                      *)
(*     String.prototype.includes is computed on them.                      *)
(***************************************************************************)
EXTENDS Integers, Sequences, FiniteSets, TLC

VARIABLES
    \* ---- GET /api/dnssec ----
    dpc,          \* position of the handler: "start", "primary", "alt", "done"
    dreq,         \* the request's raw query parameters
    domain,       \* handler local `domain`
    result,       \* handler local `result` ({passed, error})
    dqueries,     \* domains of the upstream DoH queries issued, in order
    doutcomes,    \* what each upstream query came back with, in order
    dresp,        \* the HTTP response, None until sent
    \* ---- GET /api/ip ----
    variant,      \* which handler serves the route: "explicit" (part_000) or "version" (ip.ts)
    ipc,          \* position of the handler: "start", "echo1", "echo2", "lookups", "done"
    ireq,         \* the request: query parameters, headers, remote address
    clientIp,     \* handler local `clientIp`
    finalIp,      \* handler local `finalIp`
    iechos,       \* calls to the IP-echo service: the URL and what came back
    started,      \* the lookups started: function and address, in call order
    gcalls,       \* getIpInfo's provider requests: target, address, reply
    pcalls,       \* getPtrRecord's DoH requests: name queried, address, reply
    rejected,     \* the lookups whose promise was rejected
    gpc,          \* position of getIpInfo: "idle", "primary", "secondary", "done"
    ipInfo,       \* what getIpInfo returned (None is null)
    ppc,          \* position of getPtrRecord: "idle", "pending", "done"
    ptrRecord,    \* what getPtrRecord returned (None is null)
    iresp,        \* the HTTP response, None until sent
    \* ---- address utilities ----
    ain,          \* the address a utility is applied to, and its spelling
    afn,          \* the utility applied: "none" until one has been
    aout,         \* what it returned
    \* ---- BrowserInfo island: runDnssecTests ----
    cpc,            \* position of runDnssecTests: "idle", "running", "done"
    dnssecResults,  \* signal dnssecResults: the groups and their cells
    dnssecLoading,  \* signal dnssecLoading
    dnssecComplete, \* signal dnssecComplete
    algIndex,       \* loop variable algIndex, counted from 1
    testIndex,      \* position of the inner loop in testTypes, counted from 1
    creqs,          \* the /api/dnssec requests issued, in order
    coutstanding,   \* the requests issued and not yet settled
    \* ---- BrowserInfo island: the peer connection ----
    wfn,               \* the function that owns the peer connection, "none" before
    wpc,               \* its position: "idle", "offer", "setting", "waiting",
                       \* "closed", "info4", "info6", "done"
    iceGatheringState, \* pc.iceGatheringState
    waitPromise,       \* the promise awaited for ICE gathering: "none", "pending", "resolved"
    timer,             \* the 5 second timer: "none", "pending", "fired"
    closes,            \* the number of calls of pc.close()
    webrtcIps,         \* signal webrtcIps
    detectedIps,       \* local detectedIps of detectIPsViaWebRTC
    \* ---- BrowserInfo island: the address cards ----
    ipdpc,             \* position of detectIPs: "idle", "v4", "v6", "done"
    ipv4Info, ipv6Info, ipv4Loading, ipv6Loading, ipv4Error, ipv6Error

dvars == <<dpc, dreq, domain, result, dqueries, doutcomes, dresp>>

\* the lookups of GET /api/ip
lvars == <<started, gcalls, gpc, ipInfo, pcalls, ppc, ptrRecord, rejected>>

ivars == <<variant, ipc, ireq, clientIp, finalIp, iechos, lvars, iresp>>

avars == <<ain, afn, aout>>

cvars == <<cpc, dnssecResults, dnssecLoading, dnssecComplete, algIndex,
           testIndex, creqs, coutstanding>>

wvars == <<wfn, wpc, iceGatheringState, waitPromise, timer, closes, webrtcIps,
           detectedIps>>

\* the signals of one address card
v4cells == <<ipv4Info, ipv4Loading, ipv4Error>>

v6cells == <<ipv6Info, ipv6Loading, ipv6Error>>

pvars == <<ipdpc, v4cells, v6cells>>

vars == <<dvars, ivars, avars, cvars, wvars, pvars>>

\* what the actions of one component leave alone
NotDnssec == <<ivars, avars, cvars, wvars, pvars>>

NotIp == <<dvars, avars, cvars, wvars, pvars>>

NotAddr == <<dvars, ivars, cvars, wvars, pvars>>

NotClient == <<dvars, ivars, avars, wvars, pvars>>

NotHarvest == <<dvars, ivars, avars, cvars, pvars>>

NotDetect == <<dvars, ivars, avars, cvars, wvars>>

NotViaWebRTC == <<dvars, ivars, avars, cvars>>

----------------------------------------------------------------------------
(* Optional values *)

None == <<>>

Some(v) == <<v>>

IsSome(o) == o # None

Get(o) == o[1]

----------------------------------------------------------------------------
(* Sequences as strings *)

\* String.prototype.includes: sub occurs in s as a contiguous run.
Includes(s, sub) ==
    \E i \in 0..(Len(s) - Len(sub)) :
        \A j \in 1..Len(sub) : s[i + j] = sub[j]

Min(S) == CHOOSE x \in S : \A y \in S : x <= y

Max(S) == CHOOSE x \in S : \A y \in S : x >= y

\* s.includes(c) for a single character c.
HasChar(s, c) == \E i \in 1..Len(s) : s[i] = c

\* s.endsWith(suffix)
EndsWith(s, suffix) ==
    /\ Len(s) >= Len(suffix)
    /\ SubSeq(s, Len(s) - Len(suffix) + 1, Len(s)) = suffix

\* s.split(c)[0]: the text before the first c, all of s when there is none.
SplitFirst(s, c) ==
    LET at == {i \in 1..Len(s) : s[i] = c}
    IN  IF at = {} THEN s ELSE SubSeq(s, 1, Min(at) - 1)

WhiteSpace == {" ", "\t"}

\* s.trim()
Trim(s) ==
    LET ink == {i \in 1..Len(s) : s[i] \notin WhiteSpace}
    IN  IF ink = {} THEN <<>> ELSE SubSeq(s, Min(ink), Max(ink))

RECURSIVE Split(_, _)
\* s.split(c) for a single character c.
Split(s, c) ==
    IF ~HasChar(s, c)
    THEN <<s>>
    ELSE LET i == Min({k \in 1..Len(s) : s[k] = c})
         IN  <<SubSeq(s, 1, i - 1)>> \o Split(SubSeq(s, i + 1, Len(s)), c)

RECURSIVE SplitDoubleColon(_)
\* s.split("::")
SplitDoubleColon(s) ==
    LET at == {i \in 1..(Len(s) - 1) : s[i] = ":" /\ s[i + 1] = ":"}
    IN  IF at = {}
        THEN <<s>>
        ELSE <<SubSeq(s, 1, Min(at) - 1)>>
             \o SplitDoubleColon(SubSeq(s, Min(at) + 2, Len(s)))

RECURSIVE Join(_, _)
\* pieces.join(sep)
Join(pieces, sep) ==
    IF pieces = <<>> THEN <<>>
    ELSE IF Len(pieces) = 1 THEN pieces[1]
    ELSE pieces[1] \o sep \o Join(Tail(pieces), sep)

\* s.split(""): the characters of s, each a string of its own.
Characters(s) == [i \in 1..Len(s) |-> <<s[i]>>]

\* A variant of Reverse that keeps the order.
NotReversed(a) == a

\* array.reverse()
Reverse(a) == [i \in 1..Len(a) |-> a[Len(a) + 1 - i]]

\* s.replace(/:/g, "")
WithoutColons(s) == SelectSeq(s, LAMBDA c : c # ":")

\* A variant of PadStart4 that does not pad.
NotPadded(g) == g

\* g.padStart(4, "0")
PadStart4(g) ==
    IF Len(g) >= 4 THEN g ELSE [i \in 1..(4 - Len(g)) |-> "0"] \o g

RECURSIVE WithoutTrailingDots(_)
\* A variant of WithoutTrailingDot that removes every trailing dot.
WithoutTrailingDots(s) ==
    IF s # <<>> /\ s[Len(s)] = "."
    THEN WithoutTrailingDots(SubSeq(s, 1, Len(s) - 1))
    ELSE s

\* s.replace(/\.$/, "")
WithoutTrailingDot(s) ==
    IF s # <<>> /\ s[Len(s)] = "." THEN SubSeq(s, 1, Len(s) - 1) ELSE s

----------------------------------------------------------------------------
(* Bounds *)

\* The number of probes of one page load that come back unlike the probe
\* before them.
MaxChanges == 1

\* The number of addresses one page load harvests from ICE candidates.
MaxAddresses == 2

\* The same two numbers where the three tasks of the mount effect run
\* together.
MountChanges == 0

MountAddresses == 1

\* The three tasks of the mount effect have been started together.
Together == ipdpc # "idle" /\ wfn = "detectWebRTCIPs" /\ cpc # "idle"

\* DNS response codes range over 0..MaxStatus.
MaxStatus == 3

----------------------------------------------------------------------------
(* GET /api/dnssec : catalogs *)

validAlgorithms == {"ecdsa256", "ecdsa384", "ed25519"}

validTests == {"valid", "invalid", "expired", "missing"}

DNSSEC_TEST_DOMAINS ==
    [a \in validAlgorithms |->
        [t \in validTests |->
            CASE t = "valid"   -> IF a = "ecdsa256" THEN "good.ecdsa256.dnssec.works"
                                  ELSE IF a = "ecdsa384" THEN "good.ecdsa384.dnssec.works"
                                  ELSE "good.ed25519.dnssec.works"
              [] t = "invalid" -> IF a = "ecdsa256" THEN "bad.ecdsa256.dnssec.works"
                                  ELSE IF a = "ecdsa384" THEN "bad.ecdsa384.dnssec.works"
                                  ELSE "bad.ed25519.dnssec.works"
              [] t = "expired" -> IF a = "ecdsa256" THEN "expired.ecdsa256.dnssec.works"
                                  ELSE IF a = "ecdsa384" THEN "expired.ecdsa384.dnssec.works"
                                  ELSE "expired.ed25519.dnssec.works"
              [] t = "missing" -> IF a = "ecdsa256" THEN "nosig.ecdsa256.dnssec.works"
                                  ELSE IF a = "ecdsa384" THEN "nosig.ecdsa384.dnssec.works"
                                  ELSE "nosig.ed25519.dnssec.works"]]

ALT_TEST_DOMAINS ==
    [a \in validAlgorithms |->
        [t \in validTests |->
            CASE t = "valid"   -> IF a = "ecdsa256" THEN "dnssec-tools.org"
                                  ELSE IF a = "ecdsa384" THEN "cloudflare.com"
                                  ELSE "ietf.org"
              [] t = "invalid" -> "dnssec-failed.org"
              [] t = "expired" -> "dnssec-failed.org"
              [] t = "missing" -> "example.com"]]

----------------------------------------------------------------------------
(* GET /api/dnssec : what an upstream DoH query can come back with *)

NOERROR == 0

SERVFAIL == 2

\* Messages of the exceptions fetch() may throw (an Error), word by word.
FetchErrorMessages ==
    { <<"error", "sending", "request">>,
      <<"dns", "error:", "query", "failed">>,
      <<>> }

\* response.json() rejects with a SyntaxError on a body that is not JSON.
JsonErrorMessage == <<"Unexpected", "token">>

\* kind "throw":  fetch() rejected; isError tells whether the thrown value is
\*                an Error (with `message`) or some other value.
\* kind "http":   fetch() resolved; `ok` is response.ok; `json` tells whether
\*                the body parses; Status and AD are the fields of the body
\*                (AD is "absent", "true" or "false").
Outcome(kind, isError, message, ok, json, Status, AD) ==
    [kind |-> kind, isError |-> isError, message |-> message,
     ok |-> ok, json |-> json, Status |-> Status, AD |-> AD]

ADValues == {"absent", "true", "false"}

Outcomes ==
    { Outcome("throw", TRUE, m, FALSE, FALSE, 0, "absent") : m \in FetchErrorMessages }
    \cup { Outcome("throw", FALSE, <<>>, FALSE, FALSE, 0, "absent") }
    \cup { Outcome("http", FALSE, <<>>, FALSE, FALSE, 0, "absent") }
    \cup { Outcome("http", FALSE, <<>>, TRUE, FALSE, 0, "absent") }
    \cup { Outcome("http", FALSE, <<>>, TRUE, TRUE, s, ad) :
             s \in 0..MaxStatus, ad \in ADValues }

\* The query completed at HTTP level and its body carried a DNS status.
HasDnsStatus(o) == o.kind = "http" /\ o.ok /\ o.json

Result(passed, error) == [passed |-> passed, error |-> error]

\* JavaScript truthiness of data.AD.
Truthy(ad) == ad = "true"

\* ValidVerdict, had it insisted on the authenticated-data flag.
ValidVerdictRequiresAD(o) ==
    IF o.Status = NOERROR /\ Truthy(o.AD)
    THEN Result(TRUE, None)
    ELSE Result(FALSE, Some(<<"Domain", "did", "not", "resolve">>))

\* Lines 114-120: the "valid" test.
ValidVerdict(o) ==
    IF o.Status = NOERROR
    THEN Result(TRUE, None)
    ELSE Result(FALSE, Some(<<"Domain", "did", "not", "resolve">>))

\* BadSignatureVerdict, had it taken every failing status for a rejection.
BadSignatureVerdictAnyFailure(o) ==
    IF o.Status # NOERROR
    THEN Result(TRUE, None)
    ELSE Result(FALSE, Some(<<"Resolver", "accepted", "invalid", "signature">>))

\* Lines 125-135: the "invalid" and "expired" tests.
BadSignatureVerdict(o) ==
    IF o.Status = SERVFAIL
    THEN Result(TRUE, None)
    ELSE IF o.Status = NOERROR
    THEN Result(FALSE, Some(<<"Resolver", "accepted", "invalid", "signature">>))
    ELSE Result(FALSE, Some(<<"Unexpected", "status:", ToString(o.Status)>>))

\* MissingVerdict, had it lacked the second branch (AD set).
MissingVerdictRejectsAD(o) ==
    IF o.Status = NOERROR /\ ~Truthy(o.AD)
    THEN Result(TRUE, None)
    ELSE Result(FALSE, Some(<<"Domain", "did", "not", "resolve">>))

\* Lines 138-146: the "missing" test.
MissingVerdict(o) ==
    IF o.Status = NOERROR /\ ~Truthy(o.AD)
    THEN Result(TRUE, None)
    ELSE IF o.Status = NOERROR /\ Truthy(o.AD)
    THEN Result(TRUE, None)
    ELSE Result(FALSE, Some(<<"Domain", "did", "not", "resolve">>))

testDnssec(o, tt) ==
    IF o.kind = "throw"
    THEN Result(FALSE, Some(IF o.isError THEN o.message ELSE <<"Test", "failed">>))
    ELSE IF ~o.ok
    THEN Result(FALSE, Some(<<"DNS", "query", "failed">>))
    ELSE IF ~o.json
    THEN Result(FALSE, Some(JsonErrorMessage))
    ELSE IF tt = "valid"
    THEN ValidVerdict(o)
    ELSE IF tt = "invalid" \/ tt = "expired"
    THEN BadSignatureVerdict(o)
    ELSE IF tt = "missing"
    THEN MissingVerdict(o)
    ELSE Result(FALSE, Some(<<"Unknown", "test", "type">>))

----------------------------------------------------------------------------
(* GET /api/dnssec : the handler *)

\* Values a query parameter can be sent with; None is "parameter not given".
AlgorithmParams ==
    {None, Some("")} \cup {Some(a) : a \in validAlgorithms} \cup {Some("rsasha256")}

TestParams ==
    {None, Some("")} \cup {Some(t) : t \in validTests} \cup {Some("bogus")}

\* url.searchParams.get(name) || dflt
ParamOr(p, dflt) == IF p = None \/ Get(p) = "" THEN dflt ELSE Get(p)

algorithm == ParamOr(dreq.algorithm, "ecdsa256")

testType == ParamOr(dreq.test, "valid")

\* ValidationError, had it lacked the test-type check.
ValidationErrorAlgorithmOnly(alg, tst) ==
    IF alg \notin validAlgorithms
    THEN Some(<<"Invalid", "algorithm">>)
    ELSE None

\* Lines 166-178: the 400 answers; None when both parameters are accepted.
ValidationError(alg, tst) ==
    IF alg \notin validAlgorithms
    THEN Some(<<"Invalid", "algorithm">>)
    ELSE IF tst \notin validTests
    THEN Some(<<"Invalid", "test", "type">>)
    ELSE None

\* catalog[algorithm][testType]; a key the object lacks reads as undefined.
CatalogDomain(catalog, alg, tst) ==
    IF alg \in DOMAIN catalog /\ tst \in DOMAIN catalog[alg]
    THEN catalog[alg][tst]
    ELSE "undefined"

\* NeedsFallback, had it retried after every failed probe.
NeedsFallbackOnAnyFailure(r) == ~r.passed

\* !result.passed && result.error?.includes("query failed")
NeedsFallback(r) ==
    ~r.passed /\ IsSome(r.error) /\ Includes(Get(r.error), <<"query", "failed">>)

ErrorResponse(status, error) ==
    [status |-> status, success |-> FALSE, domain |-> None, algorithm |-> None,
     testType |-> None, passed |-> None, error |-> Some(error)]

DnssecResponse(r) ==
    [status |-> 200, success |-> TRUE, domain |-> Some(domain),
     algorithm |-> Some(algorithm), testType |-> Some(testType),
     passed |-> Some(r.passed), error |-> r.error]

NoRequest == [algorithm |-> None, test |-> None]

NoResult == Result(FALSE, None)

DnssecInit ==
    /\ dpc = "start"
    /\ dreq = NoRequest
    /\ domain = ""
    /\ result = NoResult
    /\ dqueries = <<>>
    /\ doutcomes = <<>>
    /\ dresp = None

\* Lines 159-183: parse and validate the parameters, issue the primary query.
DnssecGET ==
    /\ dpc = "start"
    /\ \E a \in AlgorithmParams, t \in TestParams :
        /\ dreq' = [algorithm |-> a, test |-> t]
        /\ LET alg == ParamOr(a, "ecdsa256")
               tst == ParamOr(t, "valid")
               bad == ValidationError(alg, tst)
               dom == CatalogDomain(DNSSEC_TEST_DOMAINS, alg, tst)
           IN  IF IsSome(bad)
               THEN /\ dresp' = Some(ErrorResponse(400, Get(bad)))
                    /\ dpc' = "done"
                    /\ UNCHANGED <<domain, dqueries>>
               ELSE /\ domain' = dom
                    /\ dqueries' = Append(dqueries, dom)
                    /\ dpc' = "primary"
                    /\ UNCHANGED dresp
    /\ UNCHANGED <<result, doutcomes>>
    /\ UNCHANGED NotDnssec

\* Lines 183-199: the primary query settles; fall back or answer.
DnssecPrimarySettles ==
    /\ dpc = "primary"
    /\ \E o \in Outcomes :
        LET r == testDnssec(o, testType)
            alt == CatalogDomain(ALT_TEST_DOMAINS, algorithm, testType)
        IN  /\ doutcomes' = Append(doutcomes, o)
            /\ result' = r
            /\ IF NeedsFallback(r)
               THEN /\ domain' = alt
                    /\ dqueries' = Append(dqueries, alt)
                    /\ dpc' = "alt"
                    /\ UNCHANGED dresp
               ELSE /\ dresp' = Some(DnssecResponse(r))
                    /\ dpc' = "done"
                    /\ UNCHANGED <<domain, dqueries>>
    /\ UNCHANGED dreq
    /\ UNCHANGED NotDnssec

\* Lines 189-199: the alternate query settles; answer.
DnssecAltSettles ==
    /\ dpc = "alt"
    /\ \E o \in Outcomes :
        LET r == testDnssec(o, testType)
        IN  /\ doutcomes' = Append(doutcomes, o)
            /\ result' = r
            /\ dresp' = Some(DnssecResponse(r))
            /\ dpc' = "done"
    /\ UNCHANGED <<dreq, domain, dqueries>>
    /\ UNCHANGED NotDnssec

DnssecNext ==
    \/ DnssecGET
    \/ DnssecPrimarySettles
    \/ DnssecAltSettles

----------------------------------------------------------------------------
(* GET /api/ip : addresses and requests *)

CF4 == <<"1", ".", "1", ".", "1", ".", "1">>

CF6 == <<"2", "6", "0", "6", ":", ":", "1">>

XFF4 == <<"2", ".", "2", ".", "2", ".", "2">>

XFF6 == <<"2", "a", "0", "0", ":", ":", "2">>

REAL4 == <<"3", ".", "3", ".", "3", ".", "3">>

REMOTE4 == <<"4", ".", "4", ".", "4", ".", "4">>

ECHO4 == <<"5", ".", "5", ".", "5", ".", "5">>

ECHO6 == <<"2", "0", "0", "1", ":", ":", "5">>

LOOPBACK4 == <<"1", "2", "7", ".", "0", ".", "0", ".", "1">>

LOOPBACK6 == <<":", ":", "1">>

\* Values of the `ip` query parameter.
IpParams ==
    { None, Some(<<>>), Some(<<"8", ".", "8", ".", "8", ".", "8">>), Some(<<"f", "e", "8", "0", ":", ":", "1">>),
      Some(<<"1", ".", "2">>), Some(<<"c", "a", "f", "e">>), Some(<<"1", ".", "2", ".", "3", ".", "4", "5", "6">>), Some(<<"1", ":", ":", ":", "2">>),
      Some(<<"1", ".", "g">>), Some(<<"8", ".", "8", ";">>),
      Some(<<"1", ":", "2", ":", "3", ":", "4", ":", "5", ":", "6", ":", "7", ":", "8", ":", "9">>) }

\* Values of the `version` query parameter.
VersionParams == {None, Some("4"), Some("6"), Some("5")}

CfHeaders == {None, Some(<<>>), Some(CF4), Some(CF6), Some(LOOPBACK4)}

XffHeaders ==
    { None, Some(<<>>), Some(XFF4 \o <<",", " ", "9", ".", "9", ".", "9", ".", "9">>), Some(<<" ">> \o XFF6 \o <<" ", ",", "7", ".", "7", ".", "7", ".", "7">>),
      Some(<<" ", ",", " ", "9", ".", "9", ".", "9", ".", "9">>) }

RealIpHeaders == {None, Some(REAL4), Some(LOOPBACK6)}

RemoteAddrs == {<<>>, REMOTE4}

\* JavaScript truthiness of an optional string.
Given(o) == IsSome(o) /\ Get(o) # <<>>

\* a || b on optional strings.
OrElse(a, b) == IF Given(a) THEN a ELSE b

\* forwardedFor?.split(",")[0].trim()
FirstForwarded(xff) ==
    IF xff = None THEN None ELSE Some(Trim(SplitFirst(Get(xff), ",")))

Digits == {"0", "1", "2", "3", "4", "5", "6", "7", "8", "9"}

HexLetters == {"a", "b", "c", "d", "e", "f", "A", "B", "C", "D", "E", "F"}

\* isValidIp, had the pattern lacked its anchors: /[\d.:a-fA-F]+/.
isValidIpUnanchored(s) ==
    \E i \in 1..Len(s) : s[i] \in Digits \cup HexLetters \cup {".", ":"}

\* /^[\d.:a-fA-F]+$/.test(s)
isValidIp(s) ==
    /\ Len(s) > 0
    /\ \A i \in 1..Len(s) : s[i] \in Digits \cup HexLetters \cup {".", ":"}

\* finalIp.includes(":") ? "IPv6" : "IPv4"
VersionOf(ip) == IF HasChar(ip, ":") THEN "IPv6" ELSE "IPv4"

----------------------------------------------------------------------------
(* Address utilities of the server (ip.ts lines 50-65 and 90-103) *)

\* expandIPv6, lines 92-94: the groups left and right of "::".
LeftGroups(ip) ==
    LET parts == SplitDoubleColon(ip)
    IN  IF parts[1] # <<>> THEN Split(parts[1], ":") ELSE <<>>

RightGroups(ip) ==
    LET parts == SplitDoubleColon(ip)
    IN  IF Len(parts) >= 2 /\ parts[2] # <<>> THEN Split(parts[2], ":") ELSE <<>>

\* expandIPv6, line 97.
MissingGroups(ip) == 8 - Len(LeftGroups(ip)) - Len(RightGroups(ip))

\* expandIPv6: Some(text), or None when Array(missing) throws a RangeError
\* (missing < 0).
expandIPv6(ip) ==
    IF MissingGroups(ip) < 0
    THEN None
    ELSE LET middle == [i \in 1..MissingGroups(ip) |-> <<"0", "0", "0", "0">>]
             full == LeftGroups(ip) \o middle \o RightGroups(ip)
         IN  Some(Join([i \in 1..Len(full) |-> PadStart4(full[i])], <<":">>))

IP6_ARPA == <<".", "i", "p", "6", ".", "a", "r", "p", "a">>

IN_ADDR_ARPA == <<".", "i", "n", "-", "a", "d", "d", "r", ".", "a", "r", "p", "a">>

\* getPtrRecord, lines 52-65: the name queried, None when expandIPv6 throws.
ptrDomain(ip) ==
    IF HasChar(ip, ":")
    THEN IF expandIPv6(ip) = None
         THEN None
         ELSE Some(Join(Reverse(Characters(WithoutColons(Get(expandIPv6(ip))))), <<".">>)
                   \o IP6_ARPA)
    ELSE Some(Join(Reverse(Split(ip, ".")), <<".">>) \o IN_ADDR_ARPA)

----------------------------------------------------------------------------
(* GET /api/ip : getIpInfo and getPtrRecord *)

\* How a block of statements ends: it returns a value, it throws, or it runs
\* off its end.
Return(v) == [kind |-> "return", value |-> v]

Throw == [kind |-> "throw", value |-> None]

Normal == [kind |-> "normal", value |-> None]

\* A try block with an empty catch block: a throw inside it is swallowed and
\* execution goes on after the statement.
TryCatch(c) == IF c.kind = "throw" THEN Normal ELSE c

\* The trailing `return null` (lines 46 and 87).
ThenReturnNull(c) == IF c.kind = "normal" THEN Return(None) ELSE c

\* What the geolocation providers and the PTR resolver can come back with.
\* kind "throw": fetch() rejected; "badjson": response.json() rejected;
\* "notok": response.ok is false; "json": the decoded body, with the fields
\* the code reads.
GeoReply(kind, status, hostname, city) ==
    [kind |-> kind, status |-> status, hostname |-> hostname, city |-> city]

GEO_HOST == <<"g", "e", "o", ".", "e", "x", "a", "m", "p", "l", "e">>

PrimaryGeoReplies ==
    { GeoReply("throw", "", None, None),
      GeoReply("badjson", "", None, None),
      GeoReply("notok", "", None, None),
      GeoReply("json", "", Some(GEO_HOST), Some("Oslo")),
      GeoReply("json", "", None, Some("Oslo")) }

SecondaryGeoReplies ==
    { GeoReply("throw", "", None, None),
      GeoReply("badjson", "", None, None),
      GeoReply("notok", "", None, None),
      GeoReply("json", "fail", None, None),
      GeoReply("json", "success", None, Some("Bergen")) }

\* Answer is the reply's `Answer` member: None when absent, otherwise the
\* `data` texts of its entries.
PtrReply(kind, Answer) == [kind |-> kind, Answer |-> Answer]

PtrReplies ==
    { PtrReply("throw", None),
      PtrReply("badjson", None),
      PtrReply("notok", None),
      PtrReply("json", None),
      PtrReply("json", Some(<<>>)),
      PtrReply("json", Some(<<<<"h", ".", "e", "x", "a", "m", "p", "l", "e", ".">>>>)),
      PtrReply("json", Some(<<<<"h", ".", "e", "x", "a", "m", "p", "l", "e">>>>)),
      PtrReply("json", Some(<<<<"a", ".", ".">>, <<"b", ".", "e", "x", "a", "m", "p", "l", "e", ".">>>>)),
      PtrReply("json", Some(<<<<".">>>>)) }

IPINFO == "https://ipinfo.io/"

IP_API == "http://ip-api.com/json/"

IpInfoRecord(hostname, city) == [hostname |-> hostname, city |-> city]

\* getIpInfo, lines 17-21: the first try block, once fetch has settled.
PrimaryBody(r) ==
    IF r.kind \in {"throw", "badjson"} THEN Throw
    ELSE IF r.kind = "json" THEN Return(Some(IpInfoRecord(r.hostname, r.city)))
    ELSE Normal

\* A variant that trusts any decoded reply of the secondary provider.
SecondaryBodyAnyStatus(r) ==
    IF r.kind \in {"throw", "badjson"} THEN Throw
    ELSE IF r.kind = "json"
         THEN Return(Some(IpInfoRecord(None, r.city)))
    ELSE Normal

\* getIpInfo, lines 27-42: the second try block, once fetch has settled.
SecondaryBody(r) ==
    IF r.kind \in {"throw", "badjson"} THEN Throw
    ELSE IF r.kind = "json" /\ r.status = "success"
         THEN Return(Some(IpInfoRecord(None, r.city)))
    ELSE Normal

\* getPtrRecord, lines 76-82: the try block, once fetch has settled.
PtrBody(r) ==
    IF r.kind \in {"throw", "badjson"} THEN Throw
    ELSE IF r.kind = "json" /\ IsSome(r.Answer) /\ Len(Get(r.Answer)) > 0
         THEN Return(Some(WithoutTrailingDot(Get(r.Answer)[1])))
    ELSE Normal

Call(target, ip) == [target |-> target, ip |-> ip, reply |-> None]

Settled(calls, r) == [calls EXCEPT ![Len(calls)].reply = Some(r)]

\* getIpInfo ends with completion c.
GeoCompletes(c) ==
    /\ gpc' = "done"
    /\ IF c.kind = "return"
       THEN ipInfo' = c.value /\ UNCHANGED rejected
       ELSE rejected' = rejected \union {"getIpInfo"} /\ UNCHANGED ipInfo

\* getPtrRecord ends with completion c.
PtrCompletes(c) ==
    /\ ppc' = "done"
    /\ IF c.kind = "return"
       THEN ptrRecord' = c.value /\ UNCHANGED rejected
       ELSE rejected' = rejected \union {"getPtrRecord"} /\ UNCHANGED ptrRecord

\* getIpInfo, lines 16-24: the primary provider settles.
GeoPrimarySettles ==
    /\ gpc = "primary"
    /\ \E r \in PrimaryGeoReplies :
        LET c == TryCatch(PrimaryBody(r))
        IN  IF c.kind = "normal"
            THEN /\ gcalls' = Append(Settled(gcalls, r), Call(IP_API, gcalls[1].ip))
                 /\ gpc' = "secondary"
                 /\ UNCHANGED <<ipInfo, rejected>>
            ELSE /\ gcalls' = Settled(gcalls, r)
                 /\ GeoCompletes(c)
    /\ UNCHANGED <<variant, ipc, ireq, clientIp, finalIp, iechos, started,
                   pcalls, ppc, ptrRecord, iresp>>
    /\ UNCHANGED NotIp

\* getIpInfo, lines 26-46: the secondary provider settles.
GeoSecondarySettles ==
    /\ gpc = "secondary"
    /\ \E r \in SecondaryGeoReplies :
        /\ gcalls' = Settled(gcalls, r)
        /\ GeoCompletes(ThenReturnNull(TryCatch(SecondaryBody(r))))
    /\ UNCHANGED <<variant, ipc, ireq, clientIp, finalIp, iechos, started,
                   pcalls, ppc, ptrRecord, iresp>>
    /\ UNCHANGED NotIp

\* getPtrRecord, lines 67-87: the PTR query settles.
PtrSettles ==
    /\ ppc = "pending"
    /\ \E r \in PtrReplies :
        /\ pcalls' = Settled(pcalls, r)
        /\ PtrCompletes(ThenReturnNull(TryCatch(PtrBody(r))))
    /\ UNCHANGED <<variant, ipc, ireq, clientIp, finalIp, iechos, started,
                   gcalls, gpc, ipInfo, iresp>>
    /\ UNCHANGED NotIp

\* Promise.all([getIpInfo(finalIp), getPtrRecord(finalIp)]): both functions
\* run up to their first await within the same turn.  getPtrRecord reaches
\* its fetch only when the name could be built (lines 51-65).
StartLookups(ip) ==
    /\ finalIp' = Some(ip)
    /\ started' = <<[fn |-> "getIpInfo", ip |-> ip], [fn |-> "getPtrRecord", ip |-> ip]>>
    /\ gcalls' = <<Call(IPINFO, ip)>>
    /\ gpc' = "primary"
    /\ IF IsSome(ptrDomain(ip))
       THEN /\ pcalls' = <<Call(Get(ptrDomain(ip)), ip)>>
            /\ ppc' = "pending"
            /\ UNCHANGED <<ptrRecord, rejected>>
       ELSE /\ pcalls' = <<>>
            /\ PtrCompletes(ThenReturnNull(TryCatch(Throw)))
    /\ ipc' = "lookups"
    /\ UNCHANGED <<ipInfo, iresp>>

IpError(status, error) ==
    [status |-> status, success |-> FALSE, error |-> Some(error), ip |-> None,
     version |-> None, hostname |-> None, city |-> None]

\* Reply(status, error): the handler answers without looking anything up.
Reply(status, error) ==
    /\ iresp' = Some(IpError(status, error))
    /\ ipc' = "done"
    /\ UNCHANGED <<finalIp, lvars>>

\* The success response (part_000 lines 148-158, ip.ts lines 199-209).
IpRecord(ip, info, ptr) ==
    [status |-> 200, success |-> TRUE, error |-> None, ip |-> Some(ip),
     version |-> Some(VersionOf(ip)),
     hostname |-> IF IsSome(ptr) /\ Get(ptr) # <<>> THEN ptr
                  ELSE IF IsSome(info) THEN Get(info).hostname ELSE None,
     city |-> IF IsSome(info) THEN Get(info).city ELSE None]

\* A variant that answers as soon as one of the lookups has settled.
AnyLookupSettled == gpc = "done" \/ ppc = "done"

\* Promise.all has resolved: both promises are fulfilled.
LookupsSettled == gpc = "done" /\ ppc = "done" /\ rejected = {}

\* Both lookups have settled: the handler answers.
IpRespond ==
    /\ ipc = "lookups"
    /\ LookupsSettled
    /\ iresp' = Some(IpRecord(Get(finalIp), ipInfo, ptrRecord))
    /\ ipc' = "done"
    /\ UNCHANGED <<variant, ireq, clientIp, finalIp, iechos, lvars>>
    /\ UNCHANGED NotIp

----------------------------------------------------------------------------
(* GET /api/ip : the handler with the `ip` parameter (part_000) *)

Request(ipParam, version, cf, xff, realIp, remoteAddr) ==
    [ipParam |-> ipParam, version |-> version, cf |-> cf, xff |-> xff,
     realIp |-> realIp, remoteAddr |-> remoteAddr]

NoIpRequest == Request(None, None, None, None, None, <<>>)

\* DetectExplicit, had x-forwarded-for been consulted before cf-connecting-ip.
DetectExplicitForwardedFirst(r) ==
    OrElse(FirstForwarded(r.xff), OrElse(r.cf, OrElse(r.realIp, Some(r.remoteAddr))))

\* cfConnectingIp || forwardedFor?.split(",")[0].trim() || realIp ||
\* ctx.info.remoteAddr.hostname
DetectExplicit(r) ==
    OrElse(r.cf, OrElse(FirstForwarded(r.xff), OrElse(r.realIp, Some(r.remoteAddr))))

\* part_000 lines 107-146.
IpExplicitGET ==
    /\ ipc = "start"
    /\ variant' = "explicit"
    /\ \E p \in IpParams, cf \in CfHeaders, xff \in XffHeaders,
          real \in RealIpHeaders, remote \in RemoteAddrs :
        LET r == Request(p, None, cf, xff, real, remote)
            c == DetectExplicit(r)
        IN  /\ ireq' = r
            /\ IF Given(p)
               THEN /\ UNCHANGED clientIp
                    /\ IF ~isValidIp(Get(p))
                       THEN Reply(400, <<"Invalid", "IP", "address">>)
                       ELSE StartLookups(Get(p))
               ELSE /\ clientIp' = c
                    /\ IF ~Given(c)
                       THEN Reply(500, <<"Could", "not", "detect", "IP", "address">>)
                       ELSE StartLookups(Get(c))
    /\ UNCHANGED iechos
    /\ UNCHANGED NotIp

----------------------------------------------------------------------------
(* GET /api/ip : the handler with the `version` parameter (ip.ts) *)

IPIFY == "https://api.ipify.org?format=json"

IPIFY64 == "https://api64.ipify.org?format=json"

\* What the echo service can come back with: fetch() or response.json()
\* rejects, or the body decodes and `ip` is its ip field (None when absent).
EchoReplies ==
    { [kind |-> "throw", ip |-> None],
      [kind |-> "json", ip |-> None],
      [kind |-> "json", ip |-> Some(<<>>)],
      [kind |-> "json", ip |-> Some(ECHO4)],
      [kind |-> "json", ip |-> Some(ECHO6)] }

\* cfConnectingIp || forwardedFor?.split(",")[0].trim() || realIp
DetectVersion(r) == OrElse(r.cf, OrElse(FirstForwarded(r.xff), r.realIp))

\* NeedsEcho, had the loopback addresses not been singled out.
NeedsEchoOnlyWhenMissing(c) == ~Given(c)

\* !clientIp || clientIp === "127.0.0.1" || clientIp === "::1"
NeedsEcho(c) == ~Given(c) \/ Get(c) = LOOPBACK4 \/ Get(c) = LOOPBACK6

\* Lines 121-133: the echo service asked when no usable address was found.
FirstEchoUrl(version) == IF version = Some("6") THEN IPIFY64 ELSE IPIFY

\* Lines 155 and 173: the requested family differs from the address's.
WantsOtherFamily(version, ip) ==
    \/ version = Some("6") /\ ~HasChar(ip, ":")
    \/ version = Some("4") /\ HasChar(ip, ":")

\* Lines 157 and 175: the echo service asked for the requested family.
SecondEchoUrl(version) == IF version = Some("6") THEN IPIFY64 ELSE IPIFY

\* EchoedFamilyOk, had it only checked that an address came back.
EchoedFamilyOkAnyAddress(version, ip) == Given(ip)

\* Lines 159 and 177: the echoed address is of the requested family.
EchoedFamilyOk(version, ip) ==
    /\ Given(ip)
    /\ IF version = Some("6") THEN HasChar(Get(ip), ":") ELSE ~HasChar(Get(ip), ":")

\* NoConnectivity, had the IPv6 message been pasted into the IPv4 branch.
NoConnectivityAlwaysV6(version) == <<"No", "IPv6", "connectivity">>

NoConnectivity(version) ==
    IF version = Some("6")
    THEN <<"No", "IPv6", "connectivity">>
    ELSE <<"No", "IPv4", "connectivity">>

AskEcho(url, next) ==
    /\ iechos' = Append(iechos, [url |-> url, reply |-> None])
    /\ ipc' = next
    /\ UNCHANGED <<finalIp, lvars, iresp>>

EchoSettled(r) == [iechos EXCEPT ![Len(iechos)].reply = Some(r)]

\* Lines 142-197, with clientIp = c: answer 500, ask for the other family, or
\* start the lookups.
Resolve(c, version) ==
    IF ~Given(c)
    THEN /\ Reply(500, <<"Could", "not", "detect", "IP", "address">>)
         /\ UNCHANGED iechos
    ELSE IF WantsOtherFamily(version, Get(c))
    THEN AskEcho(SecondEchoUrl(version), "echo2")
    ELSE /\ StartLookups(Get(c))
         /\ UNCHANGED iechos

\* Lines 107-133.
IpVersionGET ==
    /\ ipc = "start"
    /\ variant' = "version"
    /\ \E v \in VersionParams, cf \in CfHeaders, xff \in XffHeaders,
          real \in RealIpHeaders :
        LET r == Request(None, v, cf, xff, real, <<>>)
            c == DetectVersion(r)
        IN  /\ ireq' = r
            /\ clientIp' = c
            /\ IF NeedsEcho(c)
               THEN AskEcho(FirstEchoUrl(v), "echo1")
               ELSE Resolve(c, v)
    /\ UNCHANGED NotIp

\* Lines 120-197: the first echo call settles.
IpFirstEchoSettles ==
    /\ ipc = "echo1"
    /\ \E r \in EchoReplies :
        IF r.kind = "throw"
        THEN /\ iechos' = EchoSettled(r)
             /\ Reply(500, <<"Could", "not", "detect", "IP", "address">>)
             /\ UNCHANGED clientIp
        ELSE /\ clientIp' = r.ip
             /\ IF Given(r.ip) /\ WantsOtherFamily(ireq.version, Get(r.ip))
                THEN /\ iechos' = Append(EchoSettled(r),
                                         [url |-> SecondEchoUrl(ireq.version),
                                          reply |-> None])
                     /\ ipc' = "echo2"
                     /\ UNCHANGED <<finalIp, lvars, iresp>>
                ELSE /\ iechos' = EchoSettled(r)
                     /\ IF ~Given(r.ip)
                        THEN Reply(500, <<"Could", "not", "detect", "IP", "address">>)
                        ELSE StartLookups(Get(r.ip))
    /\ UNCHANGED <<variant, ireq>>
    /\ UNCHANGED NotIp

\* Lines 155-197: the echo call for the requested family settles.
IpSecondEchoSettles ==
    /\ ipc = "echo2"
    /\ \E r \in EchoReplies :
        /\ iechos' = EchoSettled(r)
        /\ IF r.kind = "json" /\ EchoedFamilyOk(ireq.version, r.ip)
           THEN StartLookups(Get(r.ip))
           ELSE Reply(200, NoConnectivity(ireq.version))
    /\ UNCHANGED <<variant, ireq, clientIp>>
    /\ UNCHANGED NotIp

----------------------------------------------------------------------------
(* BrowserInfo.tsx : classification of addresses *)

DigitOf(c) ==
    CASE c = "0" -> 0 [] c = "1" -> 1 [] c = "2" -> 2 [] c = "3" -> 3
      [] c = "4" -> 4 [] c = "5" -> 5 [] c = "6" -> 6 [] c = "7" -> 7
      [] c = "8" -> 8 [] c = "9" -> 9

\* Number(s) is NaN: no comparison of isPrivateIPv4 holds of it.
NaN == -1

RECURSIVE Number(_)
\* Number(s) for a text of decimal digits; the empty text is 0, any text with
\* another character is NaN.
Number(s) ==
    IF s = <<>> THEN 0
    ELSE IF \E i \in 1..Len(s) : s[i] \notin Digits THEN NaN
    ELSE 10 * Number(SubSeq(s, 1, Len(s) - 1)) + DigitOf(s[Len(s)])

\* isPrivateIPv4, had the CGNAT range been taken for 100.64.0.0/16.
isPrivateIPv4NarrowCgnat(ip) ==
    LET parts == [i \in 1..Len(Split(ip, ".")) |-> Number(Split(ip, ".")[i])]
    IN  IF Len(parts) # 4 THEN FALSE
        ELSE \/ parts[1] = 10
             \/ parts[1] = 172 /\ parts[2] >= 16 /\ parts[2] <= 31
             \/ parts[1] = 192 /\ parts[2] = 168
             \/ parts[1] = 100 /\ parts[2] = 64
             \/ parts[1] = 169 /\ parts[2] = 254

isPrivateIPv4(ip) ==
    LET parts == [i \in 1..Len(Split(ip, ".")) |-> Number(Split(ip, ".")[i])]
    IN  IF Len(parts) # 4 THEN FALSE
        ELSE \/ parts[1] = 10
             \/ parts[1] = 172 /\ parts[2] >= 16 /\ parts[2] <= 31
             \/ parts[1] = 192 /\ parts[2] = 168
             \/ parts[1] = 100 /\ parts[2] >= 64 /\ parts[2] <= 127
             \/ parts[1] = 169 /\ parts[2] = 254

\* ip.toLowerCase(), on the characters of an address.
LowerChar(c) ==
    CASE c = "A" -> "a" [] c = "B" -> "b" [] c = "C" -> "c"
      [] c = "D" -> "d" [] c = "E" -> "e" [] c = "F" -> "f"
      [] OTHER -> c

ToLowerCase(ip) == [i \in 1..Len(ip) |-> LowerChar(ip[i])]

isPrivateIPv6(ip) ==
    LET lower == ToLowerCase(ip)
    IN  \/ Len(lower) >= 3 /\ lower[1] = "f" /\ lower[2] = "e"
           /\ lower[3] \in {"8", "9", "a", "b"}
        \/ Len(lower) >= 2 /\ lower[1] = "f" /\ lower[2] \in {"c", "d"}
        \/ lower = <<":", ":", "1">>

----------------------------------------------------------------------------
(* BrowserInfo.tsx : runDnssecTests *)

algorithms ==
    << [name |-> "ECDSA P-256", prefix |-> "ecdsa256"],
       [name |-> "ECDSA P-384", prefix |-> "ecdsa384"],
       [name |-> "Ed25519", prefix |-> "ed25519"] >>

\* testTypes, had "invalid" come first.
testTypesInvalidFirst == <<"invalid", "valid", "expired", "missing">>

testTypes == <<"valid", "invalid", "expired", "missing">>

\* What a request to /api/dnssec can come back with: fetch() rejects
\* ("throw"), response.json() rejects ("badjson"), or a body decodes, with
\* the members the code reads (None when the body lacks one).
ProbeReply(kind, dom, passed, error) ==
    [kind |-> kind, domain |-> dom, passed |-> passed, error |-> error]

ProbeReplies ==
    { ProbeReply("throw", None, None, None),
      ProbeReply("badjson", None, None, None),
      ProbeReply("json", Some("test.example"), Some(TRUE), None),
      ProbeReply("json", Some("test.example"), Some(FALSE), Some("SERVFAIL")),
      ProbeReply("json", None, None, Some("Invalid algorithm")) }

\* Lines 145-153: the initial results, every cell null.
InitialResults ==
    [g \in 1..Len(algorithms) |->
        [algorithm |-> algorithms[g].name,
         tests |-> [t \in {testTypes[i] : i \in 1..Len(testTypes)} |-> None]]]

\* Lines 168-176 and 179-185: the cell stored for a reply.
Cell(alg, tt, r) ==
    IF r.kind = "json"
    THEN [domain |-> r.domain, algorithm |-> alg.name, testType |-> tt,
          passed |-> r.passed, error |-> r.error]
    ELSE [domain |-> Some(""), algorithm |-> alg.name, testType |-> tt,
          passed |-> Some(FALSE), error |-> Some("Test failed")]

\* test?.passed === true
PassedTrue(test) == IsSome(test) /\ Get(test).passed = Some(TRUE)

\* allDnssecPassed, had it only looked for cells with passed === false.
allDnssecPassedUnlessFalse ==
    \A g \in 1..Len(dnssecResults) :
        \A t \in DOMAIN dnssecResults[g].tests :
            ~(IsSome(dnssecResults[g].tests[t])
              /\ Get(dnssecResults[g].tests[t]).passed = Some(FALSE))

\* Lines 194-198.
allDnssecPassed ==
    \A g \in 1..Len(dnssecResults) :
        \A t \in DOMAIN dnssecResults[g].tests :
            PassedTrue(dnssecResults[g].tests[t])

\* Lines 329-341: the badge of the DNSSEC card, None while it is not rendered.
Badge ==
    IF dnssecComplete
    THEN Some(IF allDnssecPassed
              THEN "Your resolver validates DNSSEC"
              ELSE "DNSSEC validation incomplete")
    ELSE None

\* The cell of the k-th request of lines 157-163, in the order of the loops.
CellAt(results, k) ==
    results[((k - 1) \div Len(testTypes)) + 1].tests[testTypes[((k - 1) % Len(testTypes)) + 1]]

\* The number of requests that came back unlike the request before them.
Changes(results) ==
    Cardinality({ k \in 2..(Len(algorithms) * Len(testTypes)) :
                    /\ IsSome(CellAt(results, k))
                    /\ <<Get(CellAt(results, k)).passed, Get(CellAt(results, k)).error>>
                        # <<Get(CellAt(results, k - 1)).passed, Get(CellAt(results, k - 1)).error>> })

\* Lines 162-163: fetch(`/api/dnssec?algorithm=${alg.prefix}&test=${testType}`)
ProbeRequest(a, t) == [algorithm |-> algorithms[a].prefix, test |-> testTypes[t]]

\* Lines 135-163: the results are initialised and the first request is sent.
RunDnssecTestsStart ==
    /\ cpc = "idle"
    /\ dnssecResults' = InitialResults
    /\ algIndex' = 1
    /\ testIndex' = 1
    /\ creqs' = <<ProbeRequest(1, 1)>>
    /\ coutstanding' = {ProbeRequest(1, 1)}
    /\ cpc' = "running"
    /\ UNCHANGED <<dnssecLoading, dnssecComplete>>

RunDnssecTests ==
    /\ RunDnssecTestsStart
    /\ UNCHANGED NotClient

\* LoopsDone, had the outer loop ended after the first algorithm.
LoopsDoneAfterFirst(algIdx) == algIdx > 1

\* Line 157: the outer loop has run through every algorithm (algIdx from 1).
LoopsDone(algIdx) == algIdx > Len(algorithms)

\* Lines 157-190: the request in flight settles; its cell is stored, and the
\* loops go on to the next request or end.
ProbeSettles ==
    /\ cpc = "running"
    /\ \E q \in coutstanding, r \in ProbeReplies :
        LET results == [dnssecResults EXCEPT
                          ![algIndex].tests[testTypes[testIndex]] =
                              Some(Cell(algorithms[algIndex], testTypes[testIndex], r))]
            lastTest == testIndex = Len(testTypes)
            nextAlg == IF lastTest THEN algIndex + 1 ELSE algIndex
            nextTest == IF lastTest THEN 1 ELSE testIndex + 1
        IN  /\ Changes(results) <= (IF Together THEN MountChanges ELSE MaxChanges)
            /\ dnssecResults' = results
            /\ algIndex' = nextAlg
            /\ testIndex' = nextTest
            /\ IF ~LoopsDone(nextAlg)
               THEN /\ creqs' = Append(creqs, ProbeRequest(nextAlg, nextTest))
                    /\ coutstanding' = (coutstanding \ {q})
                                        \union {ProbeRequest(nextAlg, nextTest)}
                    /\ UNCHANGED <<cpc, dnssecLoading, dnssecComplete>>
               ELSE /\ coutstanding' = coutstanding \ {q}
                    /\ dnssecLoading' = FALSE
                    /\ dnssecComplete' = TRUE
                    /\ cpc' = "done"
                    /\ UNCHANGED creqs
    /\ UNCHANGED NotClient

----------------------------------------------------------------------------
(* BrowserInfo.tsx : the peer connection (detectWebRTCIPs, lines 86-133, and *)
(* detectIPsViaWebRTC, lines 548-632)                                        *)

PUBLIC4 == <<"8", ".", "8", ".", "4", ".", "4">>

PRIVATE4 == <<"1", "9", "2", ".", "1", "6", "8", ".", "1", ".", "5">>

PUBLIC6 == <<"2", "0", "0", "1", ":", "d", "b", "8", ":", ":", "1">>

PRIVATE6 == <<"f", "e", "8", "0", ":", ":", "1">>

MDNS_NAME == <<"a", "b", "1", "2", ".", "l", "o", "c", "a", "l">>

BRACED == <<"{", "a", "b", "1", "2", "}">>

\* The candidate line of an ICE candidate with the given connection address.
CandidateLine(address) ==
    Join(<<<<"c", "a", "n", "d", "i", "d", "a", "t", "e", ":", "0">>, <<"1">>, <<"U", "D", "P">>, <<"2", "1", "2", "2">>, address, <<"9">>, <<"t", "y", "p">>, <<"h", "o", "s", "t">>>>, <<" ">>)

\* event.candidate?.candidate of the icecandidate events: None for the event
\* without a candidate, the empty line, a line without an address field, and
\* lines with an address.
IceEvents ==
    { None, Some(<<>>), Some(<<"c", "a", "n", "d", "i", "d", "a", "t", "e", ":", "0", " ", "1", " ", "U", "D", "P", " ", "2", "1", "2", "2">>) }
    \union { Some(CandidateLine(a)) :
                a \in {PUBLIC4, PRIVATE4, PUBLIC6, PRIVATE6, MDNS_NAME, BRACED} }

\* HarvestedAddress, had the multicast-DNS names been let through.
HarvestedAddressWithLocal(e) ==
    IF ~Given(e) THEN None
    ELSE LET parts == Split(Get(e), " ")
         IN  IF Len(parts) > 4 /\ parts[5] # <<>> /\ ~HasChar(parts[5], "{")
             THEN Some(parts[5])
             ELSE None

\* Lines 97-102 and 565-569: the address the handler takes from an event,
\* None when it takes none.
HarvestedAddress(e) ==
    IF ~Given(e) THEN None
    ELSE LET parts == Split(Get(e), " ")
         IN  IF /\ Len(parts) > 4
                /\ parts[5] # <<>>
                /\ ~EndsWith(parts[5], <<".", "l", "o", "c", "a", "l">>)
                /\ ~HasChar(parts[5], "{")
             THEN Some(parts[5])
             ELSE None

\* ips.add(ip); [...ips]
SetAdd(list, ip) ==
    IF \E i \in 1..Len(list) : list[i] = ip THEN list ELSE Append(list, ip)

\* Lines 570-574: the first public address of each family is kept.
Detect(d, ip) ==
    IF HasChar(ip, ":") /\ ~isPrivateIPv6(ip) /\ ~IsSome(d.ipv6)
    THEN [d EXCEPT !.ipv6 = Some(ip)]
    ELSE IF ~HasChar(ip, ":") /\ ~isPrivateIPv4(ip) /\ ~IsSome(d.ipv4)
    THEN [d EXCEPT !.ipv4 = Some(ip)]
    ELSE d

\* GatheringComplete, had the state never been looked at.
GatheringNeverComplete(st) == FALSE

\* pc.iceGatheringState === "complete"
GatheringComplete(st) == st = "complete"

\* The continuation of the awaited promise is due: it runs before any other
\* event is delivered.
MicrotaskPending == wpc = "waiting" /\ waitPromise = "resolved"

\* resolve(): settles the promise once.
Resolved(p) == IF p = "pending" THEN "resolved" ELSE p

\* The connection and its signals are left as they are.
SameConnection == UNCHANGED <<iceGatheringState, waitPromise, timer, closes>>

\* Lines 87-92: detectWebRTCIPs up to its first await.  Without
\* RTCPeerConnection the function returns; a throwing constructor is caught.
DetectWebRTCIPsStart ==
    /\ wfn = "none"
    /\ wfn' = "detectWebRTCIPs"
    /\ \E supported \in BOOLEAN, constructed \in BOOLEAN :
        wpc' = IF supported /\ constructed THEN "offer" ELSE "done"
    /\ SameConnection
    /\ UNCHANGED <<webrtcIps, detectedIps>>

DetectWebRTCIPs ==
    /\ DetectWebRTCIPsStart
    /\ UNCHANGED NotHarvest

\* Lines 94-108: an icecandidate event of detectWebRTCIPs.
HarvestCandidate ==
    /\ wfn = "detectWebRTCIPs"
    /\ wpc \in {"setting", "waiting"}
    /\ ~MicrotaskPending
    /\ iceGatheringState = "gathering"
    /\ \E e \in IceEvents :
        /\ webrtcIps' = IF IsSome(HarvestedAddress(e))
                        THEN SetAdd(webrtcIps, Get(HarvestedAddress(e)))
                        ELSE webrtcIps
        /\ Len(webrtcIps') <= (IF Together THEN MountAddresses ELSE MaxAddresses)
    /\ SameConnection
    /\ UNCHANGED <<wfn, wpc, detectedIps>>
    /\ UNCHANGED NotHarvest

\* Lines 563-577: an icecandidate event of detectIPsViaWebRTC.
DetectCandidate ==
    /\ wfn = "detectIPsViaWebRTC"
    /\ wpc \in {"setting", "waiting"}
    /\ ~MicrotaskPending
    /\ iceGatheringState = "gathering"
    /\ \E e \in IceEvents :
        detectedIps' = IF IsSome(HarvestedAddress(e))
                       THEN Detect(detectedIps, Get(HarvestedAddress(e)))
                       ELSE detectedIps
    /\ SameConnection
    /\ UNCHANGED <<wfn, wpc, webrtcIps>>
    /\ UNCHANGED <<pvars, NotViaWebRTC>>

\* Caught, had detectWebRTCIPs reported its failure like detectIPsViaWebRTC.
CaughtInAddressCells ==
    /\ ipv4Error' = Some("Detection failed")
    /\ ipv6Error' = Some("Detection failed")
    /\ ipv4Loading' = FALSE
    /\ ipv6Loading' = FALSE
    /\ UNCHANGED <<ipdpc, ipv4Info, ipv6Info>>

\* The catch blocks: detectWebRTCIPs ignores the failure (line 131),
\* detectIPsViaWebRTC reports it for both families (lines 626-631).
Caught ==
    IF wfn = "detectIPsViaWebRTC"
    THEN /\ ipv4Error' = Some("Detection failed")
         /\ ipv6Error' = Some("Detection failed")
         /\ ipv4Loading' = FALSE
         /\ ipv6Loading' = FALSE
         /\ UNCHANGED <<ipdpc, ipv4Info, ipv6Info>>
    ELSE UNCHANGED pvars

\* Lines 109 and 579: createOffer settles.
OfferSettles ==
    /\ wpc = "offer"
    /\ \E ok \in BOOLEAN :
        IF ok THEN wpc' = "setting" /\ UNCHANGED pvars
              ELSE wpc' = "done" /\ Caught
    /\ SameConnection
    /\ UNCHANGED <<wfn, webrtcIps, detectedIps>>
    /\ UNCHANGED NotViaWebRTC

\* Lines 110-125 and 580-595: setLocalDescription settles, and on success the
\* executor of the awaited promise runs: it resolves at once when gathering
\* is complete, and otherwise installs the state handler and the timer.
SetLocalDescriptionSettles ==
    /\ wpc = "setting"
    /\ \E ok \in BOOLEAN :
        IF ok
        THEN /\ wpc' = "waiting"
             /\ IF GatheringComplete(iceGatheringState)
                THEN waitPromise' = "resolved" /\ timer' = timer
                ELSE waitPromise' = "pending" /\ timer' = "pending"
             /\ UNCHANGED pvars
        ELSE /\ wpc' = "done"
             /\ UNCHANGED <<waitPromise, timer>>
             /\ Caught
    /\ UNCHANGED <<wfn, iceGatheringState, closes, webrtcIps, detectedIps>>
    /\ UNCHANGED NotViaWebRTC

\* The next gathering state of the connection.
NextGatheringState(st) == IF st = "new" THEN "gathering" ELSE "complete"

\* An icegatheringstatechange event; the handler of lines 115-119 and
\* 585-589, once installed, resolves the promise on "complete".
GatheringStateChanges ==
    /\ wpc \in {"setting", "waiting"}
    /\ ~MicrotaskPending
    /\ iceGatheringState # "complete"
    /\ iceGatheringState' = NextGatheringState(iceGatheringState)
    /\ waitPromise' = IF timer # "none" /\ GatheringComplete(iceGatheringState')
                      THEN Resolved(waitPromise)
                      ELSE waitPromise
    /\ UNCHANGED <<wfn, wpc, timer, closes, webrtcIps, detectedIps>>
    /\ UNCHANGED <<pvars, NotViaWebRTC>>

\* Lines 122 and 592: setTimeout(resolve, 5000) fires.
TimerFires ==
    /\ timer = "pending"
    /\ ~MicrotaskPending
    /\ timer' = "fired"
    /\ waitPromise' = Resolved(waitPromise)
    /\ UNCHANGED <<wfn, wpc, iceGatheringState, closes, webrtcIps, detectedIps>>
    /\ UNCHANGED <<pvars, NotViaWebRTC>>

\* Line 127: the continuation of detectWebRTCIPs closes the connection.
HarvestCloses ==
    /\ wfn = "detectWebRTCIPs"
    /\ wpc = "waiting"
    /\ waitPromise = "resolved"
    /\ closes' = closes + 1
    /\ wpc' = "done"
    /\ UNCHANGED <<wfn, iceGatheringState, waitPromise, timer, webrtcIps, detectedIps>>
    /\ UNCHANGED NotHarvest

\* The record shown for an address: the answer of /api/ip?ip= when it has
\* success, and the bare address otherwise (lines 603-607 and 615-619).
BareAddress(ip, version) == [ip |-> ip, version |-> version, success |-> None]

InfoReplies(ip, version) ==
    { [kind |-> "throw"], [kind |-> "badjson"],
      [kind |-> "json", success |-> FALSE],
      [kind |-> "json", success |-> TRUE,
       data |-> [ip |-> ip, version |-> version, success |-> Some(TRUE)]] }

InfoValue(reply, ip, version) ==
    IF reply.kind = "json" /\ reply.success THEN reply.data
    ELSE BareAddress(ip, version)

\* Lines 611-624: the IPv6 half, up to its request.
DetectedIPv6 ==
    IF IsSome(detectedIps.ipv6)
    THEN wpc' = "info6" /\ UNCHANGED v6cells
    ELSE /\ wpc' = "done"
         /\ ipv6Error' = Some("No IPv6 detected")
         /\ ipv6Loading' = FALSE
         /\ UNCHANGED ipv6Info

\* Lines 597-624: the continuation of detectIPsViaWebRTC closes the
\* connection and runs to its next await.
DetectCloses ==
    /\ wfn = "detectIPsViaWebRTC"
    /\ wpc = "waiting"
    /\ waitPromise = "resolved"
    /\ closes' = closes + 1
    /\ IF IsSome(detectedIps.ipv4)
       THEN wpc' = "info4" /\ UNCHANGED <<v4cells, v6cells>>
       ELSE /\ ipv4Error' = Some("No IPv4 detected")
            /\ ipv4Loading' = FALSE
            /\ UNCHANGED ipv4Info
            /\ DetectedIPv6
    /\ UNCHANGED <<wfn, iceGatheringState, waitPromise, timer, webrtcIps, detectedIps, ipdpc>>
    /\ UNCHANGED NotViaWebRTC

\* Lines 601-610: the request for the IPv4 address settles.
Info4Settles ==
    /\ wpc = "info4"
    /\ \E reply \in InfoReplies(Get(detectedIps.ipv4), "IPv4") :
        ipv4Info' = Some(InfoValue(reply, Get(detectedIps.ipv4), "IPv4"))
    /\ ipv4Loading' = FALSE
    /\ UNCHANGED ipv4Error
    /\ DetectedIPv6
    /\ UNCHANGED <<wfn, iceGatheringState, waitPromise, timer, closes, webrtcIps, detectedIps, ipdpc>>
    /\ UNCHANGED NotViaWebRTC

\* Lines 613-622: the request for the IPv6 address settles.
Info6Settles ==
    /\ wpc = "info6"
    /\ \E reply \in InfoReplies(Get(detectedIps.ipv6), "IPv6") :
        ipv6Info' = Some(InfoValue(reply, Get(detectedIps.ipv6), "IPv6"))
    /\ ipv6Loading' = FALSE
    /\ wpc' = "done"
    /\ UNCHANGED <<ipv6Error, v4cells>>
    /\ UNCHANGED <<wfn, iceGatheringState, waitPromise, timer, closes, webrtcIps, detectedIps, ipdpc>>
    /\ UNCHANGED NotViaWebRTC

\* Lines 549-561: detectIPsViaWebRTC up to its first await.
DetectIPsViaWebRTC ==
    /\ wfn = "none"
    /\ ipdpc = "idle"
    /\ wfn' = "detectIPsViaWebRTC"
    /\ \E supported \in BOOLEAN, constructed \in BOOLEAN :
        IF ~supported
        THEN /\ wpc' = "done"
             /\ ipv4Error' = Some("WebRTC not supported")
             /\ ipv6Error' = Some("WebRTC not supported")
             /\ ipv4Loading' = FALSE
             /\ ipv6Loading' = FALSE
             /\ UNCHANGED <<ipdpc, ipv4Info, ipv6Info>>
        ELSE IF ~constructed
        THEN /\ wpc' = "done"
             /\ ipv4Error' = Some("Detection failed")
             /\ ipv6Error' = Some("Detection failed")
             /\ ipv4Loading' = FALSE
             /\ ipv6Loading' = FALSE
             /\ UNCHANGED <<ipdpc, ipv4Info, ipv6Info>>
        ELSE wpc' = "offer" /\ UNCHANGED pvars
    /\ SameConnection
    /\ UNCHANGED <<webrtcIps, detectedIps>>
    /\ UNCHANGED NotViaWebRTC

----------------------------------------------------------------------------
(* BrowserInfo.tsx : detectIPs (lines 54-84)                                 *)

\* What fetch("/api/ip?version=...") and response.json() give: a thrown
\* request, an undecodable body, or the decoded answer.
DetectReplies(ip, version) ==
    { [kind |-> "throw"], [kind |-> "badjson"],
      [kind |-> "json", success |-> TRUE,
       data |-> [ip |-> ip, version |-> version, success |-> Some(TRUE)]] }
    \union { [kind |-> "json", success |-> FALSE, error |-> e] :
                e \in {None, Some(""), Some("No connectivity")} }

\* OrDefault, had the empty message been kept.
OrDefaultUnlessMissing(error, default) ==
    IF IsSome(error) THEN Get(error) ELSE default

\* data.error || default
OrDefault(error, default) ==
    IF IsSome(error) /\ Get(error) # "" THEN Get(error) ELSE default

\* The try blocks of lines 56-65 and 72-81: the values of the info and error
\* cells after the reply; thrown is the message of the catch block and
\* default the message for an answer without one.
InfoAfter(reply, info) ==
    IF reply.kind = "json" /\ reply.success THEN Some(reply.data) ELSE info

ErrorAfter(reply, error, default, thrown) ==
    IF reply.kind # "json" THEN Some(thrown)
    ELSE IF reply.success THEN error
    ELSE Some(OrDefault(reply.error, default))

\* Line 51: the mount effect calls detectIPs, which runs to its first await.
DetectIPsStart ==
    /\ ipdpc = "idle"
    /\ wfn # "detectIPsViaWebRTC"
    /\ ipdpc' = "v4"
    /\ UNCHANGED <<v4cells, v6cells>>

DetectIPs ==
    /\ DetectIPsStart
    /\ UNCHANGED NotDetect

\* Lines 48-52: the mount effect calls detectIPs, detectWebRTCIPs and
\* runDnssecTests; each runs to its first await before the next is called.
Mount ==
    /\ DetectIPsStart
    /\ DetectWebRTCIPsStart
    /\ RunDnssecTestsStart
    /\ UNCHANGED <<dvars, ivars, avars>>

\* Lines 55-69: the IPv4 request settles; the function goes on to the IPv6
\* request.
Detect4Settles ==
    /\ ipdpc = "v4"
    /\ \E reply \in DetectReplies(PUBLIC4, "IPv4") :
        /\ ipv4Info' = InfoAfter(reply, ipv4Info)
        /\ ipv4Error' = ErrorAfter(reply, ipv4Error, "Failed to detect IPv4",
                                   "IPv4 detection failed")
    /\ ipv4Loading' = FALSE
    /\ ipdpc' = "v6"
    /\ UNCHANGED v6cells
    /\ UNCHANGED NotDetect

\* Lines 71-83: the IPv6 request settles.
Detect6Settles ==
    /\ ipdpc = "v6"
    /\ \E reply \in DetectReplies(PUBLIC6, "IPv6") :
        /\ ipv6Info' = InfoAfter(reply, ipv6Info)
        /\ ipv6Error' = ErrorAfter(reply, ipv6Error, "No IPv6 connectivity",
                                   "No IPv6 connectivity")
    /\ ipv6Loading' = FALSE
    /\ ipdpc' = "done"
    /\ UNCHANGED v4cells
    /\ UNCHANGED NotDetect

----------------------------------------------------------------------------
(* The address utilities, applied to one address *)

DigitChar(d) ==
    CASE d = 0 -> "0" [] d = 1 -> "1" [] d = 2 -> "2" [] d = 3 -> "3"
      [] d = 4 -> "4" [] d = 5 -> "5" [] d = 6 -> "6" [] d = 7 -> "7"
      [] d = 8 -> "8" [] d = 9 -> "9"

RECURSIVE Decimal(_)
\* The decimal spelling of n, without leading zeros.
Decimal(n) ==
    IF n < 10 THEN <<DigitChar(n)>>
    ELSE Decimal(n \div 10) \o <<DigitChar(n % 10)>>

\* An IPv4 address: its octets and its dotted spelling.
V4(octets) ==
    [family |-> "v4", octets |-> octets, left |-> <<>>, right |-> <<>>,
     compressed |-> FALSE,
     text |-> Join([i \in 1..Len(octets) |-> Decimal(octets[i])], <<".">>)]

\* An IPv6 address: the groups spelled before and after "::" (compressed), or
\* all its groups (left, not compressed), and the spelling.
V6(left, right, compressed) ==
    [family |-> "v6", octets |-> <<>>, left |-> left, right |-> right,
     compressed |-> compressed,
     text |-> Join(left, <<":">>)
              \o (IF compressed THEN <<":", ":">> ELSE <<>>)
              \o Join(right, <<":">>)]

NoAddress ==
    [family |-> "none", octets |-> <<>>, left |-> <<>>, right |-> <<>>,
     compressed |-> FALSE, text |-> <<>>]

\* Octets around the borders of the ranges isPrivateIPv4 knows.
FirstOctets ==
    {0, 9, 10, 11, 99, 100, 101, 168, 169, 170, 171, 172, 173, 191, 192, 193, 255}

SecondOctets ==
    {0, 15, 16, 17, 31, 32, 63, 64, 65, 127, 128, 167, 168, 169, 253, 254, 255}

V4Inputs ==
    { V4(<<a, b, c, 1>>) : a \in FirstOctets, b \in SecondOctets, c \in {0, 255} }
    \union { V4(<<10, 0, 1>>), V4(<<192, 168, 0, 0, 1>>), V4(<<8, 8, 4, 4>>) }

\* Spellings of the first group around the borders of the prefixes
\* isPrivateIPv6 knows, and of the other groups.
FirstGroups ==
    { <<"f", "e", "8", "0">>, <<"f", "e", "8">>, <<"f", "e", "b", "f">>, <<"f", "e", "b">>, <<"f", "e", "c", "0">>, <<"f", "e", "7", "f">>, <<"f", "e">>, <<"f", "c", "0", "0">>, <<"f", "c">>,
      <<"f", "d", "f", "f">>, <<"f", "d">>, <<"f", "b", "f", "f">>, <<"F", "E", "8", "0">>, <<"F", "c", "0", "0">>, <<"2", "0", "0", "1">>, <<"1">>, <<"0">>, <<"0", "0", "0", "1">> }

\* The groups after the first one: k groups.
OtherGroups(k) ==
    { [i \in 1..k |-> <<"0">>],
      [i \in 1..k |-> <<"1">>],
      [i \in 1..k |-> IF i = k THEN <<"1">> ELSE <<"0">>],
      [i \in 1..k |-> IF i % 2 = 1 THEN <<"d", "b", "8">> ELSE <<"a", "0">>] }

\* The sequences of n groups.
GroupSeqs(n) ==
    IF n = 0 THEN {<<>>}
    ELSE { <<f>> \o t : f \in FirstGroups, t \in OtherGroups(n - 1) }

V6Inputs ==
    UNION { { V6(SubSeq(gs, 1, l), SubSeq(gs, l + 1, Len(gs)), TRUE) : l \in 0..Len(gs) }
            : gs \in UNION { GroupSeqs(n) : n \in 0..7 } }
    \union { V6(gs, <<>>, FALSE) : gs \in GroupSeqs(8) }
    \union { V6(<<<<"2", "0", "0", "1">>, <<"d", "b", "8">>>>, <<<<"1">>>>, TRUE),
             V6(<<<<"2", "0", "0", "1">>, <<"D", "B", "8">>, <<"8", "5", "a", "3">>>>, <<<<"8", "a", "2", "e">>, <<"3", "7", "0">>, <<"7", "3", "3", "4">>>>, TRUE) }

\* Texts that pass for IPv6 by containing ":" but have too many groups.
MalformedV6Inputs ==
    { V6([i \in 1..9 |-> <<"1">>], <<>>, FALSE),
      V6([i \in 1..5 |-> <<"1">>], [i \in 1..4 |-> <<"2">>], TRUE) }

AddrInputs == V4Inputs \union V6Inputs \union MalformedV6Inputs

Applied(fn, out) ==
    /\ afn = "none"
    /\ afn' = fn
    /\ aout' = out
    /\ UNCHANGED ain
    /\ UNCHANGED NotAddr

\* ip.ts line 54: expandIPv6 is called on texts that contain ":".
ApplyExpandIPv6 ==
    /\ HasChar(ain.text, ":")
    /\ Applied("expandIPv6", expandIPv6(ain.text))

\* ip.ts lines 51-65.
ApplyPtrDomain ==
    /\ ain.text # <<>>
    /\ Applied("ptrDomain", ptrDomain(ain.text))

\* BrowserInfo.tsx line 572.
ApplyIsPrivateIPv4 ==
    /\ ~HasChar(ain.text, ":")
    /\ Applied("isPrivateIPv4", isPrivateIPv4(ain.text))

\* BrowserInfo.tsx line 570.
ApplyIsPrivateIPv6 ==
    /\ HasChar(ain.text, ":")
    /\ Applied("isPrivateIPv6", isPrivateIPv6(ain.text))

----------------------------------------------------------------------------
(* Specifications *)

IpInit ==
    /\ variant = "none"
    /\ ipc = "start"
    /\ ireq = NoIpRequest
    /\ clientIp = None
    /\ finalIp = None
    /\ iechos = <<>>
    /\ started = <<>>
    /\ gcalls = <<>>
    /\ pcalls = <<>>
    /\ rejected = {}
    /\ gpc = "idle"
    /\ ipInfo = None
    /\ ppc = "idle"
    /\ ptrRecord = None
    /\ iresp = None

\* No utility is being applied.
AddrIdle ==
    /\ ain = NoAddress
    /\ afn = "none"
    /\ aout = None

\* A utility is about to be applied to some address.
AddrInit ==
    /\ ain \in AddrInputs
    /\ afn = "none"
    /\ aout = None

\* Lines 41-43: the island before its effect has run.
ClientInit ==
    /\ cpc = "idle"
    /\ dnssecResults = <<>>
    /\ dnssecLoading = TRUE
    /\ dnssecComplete = FALSE
    /\ algIndex = 1
    /\ testIndex = 1
    /\ creqs = <<>>
    /\ coutstanding = {}

\* Lines 35-45 and 455-460: the signals before the effect has run, and no
\* peer connection.
PageInit ==
    /\ wfn = "none"
    /\ wpc = "idle"
    /\ iceGatheringState = "new"
    /\ waitPromise = "none"
    /\ timer = "none"
    /\ closes = 0
    /\ webrtcIps = <<>>
    /\ detectedIps = [ipv4 |-> None, ipv6 |-> None]
    /\ ipdpc = "idle"
    /\ ipv4Info = None
    /\ ipv6Info = None
    /\ ipv4Loading = TRUE
    /\ ipv6Loading = TRUE
    /\ ipv4Error = None
    /\ ipv6Error = None

Init == DnssecInit /\ IpInit /\ AddrIdle /\ ClientInit /\ PageInit

IpNext ==
    \/ IpExplicitGET
    \/ IpVersionGET
    \/ IpFirstEchoSettles
    \/ IpSecondEchoSettles
    \/ GeoPrimarySettles
    \/ GeoSecondarySettles
    \/ PtrSettles
    \/ IpRespond

\* One request to GET /api/dnssec.
SpecDnssec == Init /\ [][DnssecNext]_vars

\* One request to GET /api/ip, served by either handler.
SpecIp == Init /\ [][IpNext]_vars

AddrNext ==
    \/ ApplyExpandIPv6
    \/ ApplyPtrDomain
    \/ ApplyIsPrivateIPv4
    \/ ApplyIsPrivateIPv6

\* Some address is given, and nothing else is going on.
InitAddr == DnssecInit /\ IpInit /\ AddrInit /\ ClientInit /\ PageInit

\* One application of an address utility to one address.
SpecAddr == InitAddr /\ [][AddrNext]_vars

ClientNext ==
    \/ RunDnssecTests
    \/ ProbeSettles

\* One load of the page: the DNSSEC probes of the island.
SpecClient == Init /\ [][ClientNext]_vars

WebRTCNext ==
    \/ DetectWebRTCIPs
    \/ DetectIPsViaWebRTC
    \/ OfferSettles
    \/ SetLocalDescriptionSettles
    \/ GatheringStateChanges
    \/ HarvestCandidate
    \/ DetectCandidate
    \/ TimerFires
    \/ HarvestCloses
    \/ DetectCloses
    \/ Info4Settles
    \/ Info6Settles

\* The peer connection of one page load, in either of the two functions.
SpecWebRTC == Init /\ [][WebRTCNext]_vars

CellsNext ==
    \/ DetectIPs
    \/ Detect4Settles
    \/ Detect6Settles
    \/ DetectIPsViaWebRTC
    \/ OfferSettles
    \/ SetLocalDescriptionSettles
    \/ GatheringStateChanges
    \/ DetectCandidate
    \/ TimerFires
    \/ DetectCloses
    \/ Info4Settles
    \/ Info6Settles

\* The address cells of one page load, filled by detectIPs or by
\* detectIPsViaWebRTC.
SpecCells == Init /\ [][CellsNext]_vars

\* The mount effect runs, every request settles (with an answer or a failure),
\* a due timer fires and the continuation of a settled promise runs.
SpecCellsFair ==
    /\ SpecCells
    /\ WF_vars(DetectIPs \/ DetectIPsViaWebRTC)
    /\ WF_vars(Detect4Settles)
    /\ WF_vars(Detect6Settles)
    /\ WF_vars(OfferSettles)
    /\ WF_vars(SetLocalDescriptionSettles)
    /\ WF_vars(TimerFires)
    /\ WF_vars(DetectCloses)
    /\ WF_vars(Info4Settles)
    /\ WF_vars(Info6Settles)

\* The mount effect runs and every request to /api/dnssec settles, with an
\* answer or a failure.
SpecClientFair ==
    /\ SpecClient
    /\ WF_vars(RunDnssecTests)
    /\ WF_vars(ProbeSettles)

MountNext ==
    \/ Mount
    \/ Detect4Settles
    \/ Detect6Settles
    \/ OfferSettles
    \/ SetLocalDescriptionSettles
    \/ GatheringStateChanges
    \/ HarvestCandidate
    \/ TimerFires
    \/ HarvestCloses
    \/ ProbeSettles

\* One page load: the three tasks of the mount effect, interleaved at their
\* awaits; a task that stops taking steps has failed to finish.
SpecMount == Init /\ [][MountNext]_vars

\* The event loop runs a due timer and the continuation of a settled promise;
\* nothing obliges the browser to deliver candidates or state changes, or a
\* request to settle.
SpecWebRTCFair ==
    /\ SpecWebRTC
    /\ WF_vars(TimerFires)
    /\ WF_vars(HarvestCloses)
    /\ WF_vars(DetectCloses)


----------------------------------------------------------------------------
(* GET /api/dnssec : properties *)

Last(s) == s[Len(s)]

Answered == dpc = "done" /\ IsSome(dresp)

\* The request was accepted and answered with the probe's result.
Probed == Answered /\ Get(dresp).status = 200

\* The query failed at network level: fetch threw, or the response was not OK.
NetworkFailure(o) == o.kind = "throw" \/ (o.kind = "http" /\ ~o.ok)

PrimaryDomain == DNSSEC_TEST_DOMAINS[algorithm][testType]

AlternateDomain == ALT_TEST_DOMAINS[algorithm][testType]

\* C1: for test type "invalid" or "expired", a query that came back HTTP-OK
\* with DNS status S gives passed = true iff S = 2, passed = false with
\* "Resolver accepted invalid signature" iff S = 0, and passed = false with
\* "Unexpected status: S" for every other S.
C1_BadSignatureVerdict ==
    (/\ doutcomes # <<>>
     /\ testType \in {"invalid", "expired"}
     /\ HasDnsStatus(Last(doutcomes)))
    => LET S == Last(doutcomes).Status
       IN  /\ result.passed <=> S = 2
           /\ (/\ ~result.passed
               /\ result.error = Some(<<"Resolver", "accepted", "invalid", "signature">>))
              <=> S = 0
           /\ S \notin {0, 2} =>
                /\ ~result.passed
                /\ result.error = Some(<<"Unexpected", "status:", ToString(S)>>)
           /\ Answered =>
                /\ Get(dresp).passed = Some(result.passed)
                /\ Get(dresp).error = result.error

C1_Witness ==
    /\ Probed
    /\ testType = "expired"
    /\ HasDnsStatus(Last(doutcomes))
    /\ Last(doutcomes).Status = 2
    /\ Get(dresp).passed = Some(TRUE)

\* C2: if the primary query fails at network level (fetch throws, or the
\* response is not OK), exactly one further query is issued, against the
\* alternate-catalog domain, and the response reports that second query.
C2_FallbackOnNetworkFailure ==
    (doutcomes # <<>> /\ NetworkFailure(doutcomes[1]))
    => /\ Len(dqueries) = 2
       /\ dqueries[2] = AlternateDomain
       /\ Answered =>
            /\ Len(doutcomes) = 2
            /\ Get(dresp).domain = Some(AlternateDomain)

\* C3: when the primary query came back HTTP-OK with a DNS status, no
\* alternate query is issued and the response carries the primary domain and
\* the primary probe's passed and error; no request issues more than two
\* upstream queries.
C3_NoFallbackAfterDnsStatus ==
    /\ Len(dqueries) <= 2
    /\ (doutcomes # <<>> /\ HasDnsStatus(doutcomes[1]))
       => /\ dqueries = <<PrimaryDomain>>
          /\ Len(doutcomes) = 1
          /\ Answered
          /\ Get(dresp).domain = Some(PrimaryDomain)
          /\ Get(dresp).passed = Some(result.passed)
          /\ Get(dresp).error = result.error
          /\ result.passed \/ IsSome(result.error)

C3_Witness ==
    /\ Probed
    /\ HasDnsStatus(doutcomes[1])
    /\ testType = "invalid"
    /\ doutcomes[1].Status = 0
    /\ Get(dresp).passed = Some(FALSE)
    /\ dqueries = <<PrimaryDomain>>

\* C4: for test type "valid", the response has passed = true iff the last
\* query issued (primary or alternate domain) came back with DNS status 0,
\* and for any other DNS status it has passed = false with "Domain did not
\* resolve"; the catalog that supplied the domain plays no part.
C4_ValidVerdict ==
    (Probed /\ testType = "valid")
    => LET o == Last(doutcomes)
       IN  /\ Len(doutcomes) = Len(dqueries)
           /\ Get(dresp).domain = Some(Last(dqueries))
           /\ Get(dresp).passed = Some(TRUE) <=> (HasDnsStatus(o) /\ o.Status = 0)
           /\ (HasDnsStatus(o) /\ o.Status # 0) =>
                /\ Get(dresp).passed = Some(FALSE)
                /\ Get(dresp).error = Some(<<"Domain", "did", "not", "resolve">>)

C4_Witness ==
    /\ Probed
    /\ testType = "valid"
    /\ Len(dqueries) = 2
    /\ Get(dresp).domain = Some(AlternateDomain)
    /\ Last(doutcomes).Status = 0
    /\ Last(doutcomes).AD = "false"
    /\ Get(dresp).passed = Some(TRUE)

Rejected ==
    /\ Answered
    /\ Get(dresp).status = 400
    /\ ~Get(dresp).success
    /\ dqueries = <<>>

\* C6 as stated: a request whose algorithm value is not one of the three
\* algorithms, or whose test value is not one of the four tests, is answered
\* 400 with success = false and issues no upstream query.
C6_AnyValueOutsideEnumRejected ==
    (/\ dpc # "start"
     /\ \/ (IsSome(dreq.algorithm) /\ Get(dreq.algorithm) \notin validAlgorithms)
        \/ (IsSome(dreq.test) /\ Get(dreq.test) \notin validTests))
    => Rejected

\* C6 amended: a request whose algorithm value is non-empty and not one of
\* the three algorithms, or whose test value is non-empty and not one of the
\* four tests, is answered 400 with success = false and issues no upstream
\* query.
C6_NonEmptyValueOutsideEnumRejected ==
    (/\ dpc # "start"
     /\ \/ (/\ IsSome(dreq.algorithm)
            /\ Get(dreq.algorithm) # ""
            /\ Get(dreq.algorithm) \notin validAlgorithms)
        \/ (/\ IsSome(dreq.test)
            /\ Get(dreq.test) # ""
            /\ Get(dreq.test) \notin validTests))
    => Rejected

C6_Witness ==
    /\ Rejected
    /\ dreq.algorithm = Some("ed25519")
    /\ dreq.test = Some("bogus")

----------------------------------------------------------------------------
(* GET /api/ip : properties *)

IpAnswered == ipc = "done" /\ IsSome(iresp)

IpFailed(status, error) ==
    /\ IpAnswered
    /\ Get(iresp).status = status
    /\ ~Get(iresp).success
    /\ Get(iresp).error = Some(error)

Loopbacks == {LOOPBACK4, LOOPBACK6}

DigitValue(d) == CHOOSE n \in 0..9 : ToString(n) = d

RECURSIVE DecimalValue(_)
DecimalValue(s) ==
    IF s = <<>> THEN 0
    ELSE 10 * DecimalValue(SubSeq(s, 1, Len(s) - 1)) + DigitValue(s[Len(s)])

\* Four dot-separated decimal octets, each 0..255.
WellFormedIPv4(s) ==
    LET parts == Split(s, ".")
    IN  /\ Len(parts) = 4
        /\ \A i \in 1..4 :
            /\ Len(parts[i]) \in 1..3
            /\ \A j \in 1..Len(parts[i]) : parts[i][j] \in Digits
            /\ DecimalValue(parts[i]) <= 255

HexGroups(s) ==
    IF s = <<>> THEN <<>> ELSE Split(s, ":")

AllHexGroups(gs) ==
    \A i \in 1..Len(gs) :
        /\ Len(gs[i]) \in 1..4
        /\ \A j \in 1..Len(gs[i]) : gs[i][j] \in Digits \cup HexLetters

\* Eight groups of 1..4 hex digits, or fewer around a single "::".
WellFormedIPv6(s) ==
    LET dc == {i \in 1..(Len(s) - 1) : s[i] = ":" /\ s[i + 1] = ":"}
    IN  IF dc = {}
        THEN Len(HexGroups(s)) = 8 /\ AllHexGroups(HexGroups(s))
        ELSE /\ Cardinality(dc) = 1
             /\ LET i == Min(dc)
                    left == HexGroups(SubSeq(s, 1, i - 1))
                    right == HexGroups(SubSeq(s, i + 2, Len(s)))
                IN  /\ AllHexGroups(left)
                    /\ AllHexGroups(right)
                    /\ Len(left) + Len(right) <= 7

WellFormedIp(s) == WellFormedIPv4(s) \/ WellFormedIPv6(s)

IpRejected ==
    /\ IpFailed(400, <<"Invalid", "IP", "address">>)
    /\ started = <<>>
    /\ gcalls = <<>>
    /\ pcalls = <<>>
    /\ rejected = {}
    /\ gpc = "idle"
    /\ ppc = "idle"

\* C8 as stated: a request whose `ip` parameter is not a well-formed IPv4 or
\* IPv6 address is answered 400 with success = false, and neither lookup is
\* started.
C8_MalformedIpRejected ==
    (/\ variant = "explicit"
     /\ Given(ireq.ipParam)
     /\ ~WellFormedIp(Get(ireq.ipParam)))
    => IpRejected

\* C8 amended: a request whose `ip` parameter contains a character other than
\* a digit, ".", ":" or a letter a-f / A-F is answered 400 with
\* success = false, and neither lookup is started.
C8_ForeignCharacterRejected ==
    (/\ variant = "explicit"
     /\ Given(ireq.ipParam)
     /\ \E i \in 1..Len(Get(ireq.ipParam)) :
            Get(ireq.ipParam)[i] \notin Digits \cup HexLetters \cup {".", ":"})
    => IpRejected

C8_Witness ==
    /\ IpRejected
    /\ ireq.ipParam = Some(<<"8", ".", "8", ";">>)
    /\ ireq.cf = Some(CF4)

Requested(v) == variant = "version" /\ ireq.version = Some(v)

\* C9: a success response to ?version=6 carries an ip containing ":" and
\* version "IPv6"; a success response to ?version=4 carries an ip without ":"
\* and version "IPv4".
C9_RequestedFamilyReported ==
    (IpAnswered /\ Get(iresp).success)
    => /\ Requested("6") =>
            /\ HasChar(Get(Get(iresp).ip), ":")
            /\ Get(iresp).version = Some("IPv6")
       /\ Requested("4") =>
            /\ ~HasChar(Get(Get(iresp).ip), ":")
            /\ Get(iresp).version = Some("IPv4")

C9_Witness ==
    /\ IpAnswered
    /\ Requested("6")
    /\ ireq.cf = Some(CF4)
    /\ Len(iechos) = 1
    /\ iechos[1].url = IPIFY64
    /\ Get(iresp).success
    /\ Get(iresp).ip = Some(ECHO6)
    /\ Get(iresp).version = Some("IPv6")

\* The echo call threw, or replied with no address or one of the other family.
EchoFailedFor(v, reply) ==
    \/ reply.kind = "throw"
    \/ ~Given(reply.ip)
    \/ (v = "6" /\ ~HasChar(Get(reply.ip), ":"))
    \/ (v = "4" /\ HasChar(Get(reply.ip), ":"))

LastEchoFailedFor(v) ==
    /\ iechos # <<>>
    /\ IsSome(Last(iechos).reply)
    /\ EchoFailedFor(v, Get(Last(iechos).reply))

NoConnectivityAnswer(v) ==
    /\ IpFailed(200, <<"No", IF v = "6" THEN "IPv6" ELSE "IPv4", "connectivity">>)
    /\ started = <<>>
    /\ gcalls = <<>>
    /\ pcalls = <<>>
    /\ rejected = {}
    /\ gpc = "idle"
    /\ ppc = "idle"

\* C10 as stated: whenever the echo service for the requested family V throws,
\* or replies with no address or an address of the other family, the response
\* is 200 with success = false and "No IPvV connectivity", and no lookup is
\* performed.
C10_EchoFailureIsNoConnectivity ==
    \A v \in {"4", "6"} :
        (Requested(v) /\ ipc = "done" /\ LastEchoFailedFor(v))
        => NoConnectivityAnswer(v)

\* A non-loopback address of the family other than v.
UsableOtherFamily(c, v) ==
    /\ Given(c)
    /\ Get(c) \notin Loopbacks
    /\ IF v = "6" THEN ~HasChar(Get(c), ":") ELSE HasChar(Get(c), ":")

\* C10 amended: whenever a non-loopback address of the other family has been
\* determined (from the headers or from the first echo reply) and the echo
\* call for the requested family V then throws, or replies with no address or
\* an address of the other family, the response is 200 with success = false
\* and "No IPvV connectivity", and no lookup is performed.
C10_RequeryFailureIsNoConnectivity ==
    \A v \in {"4", "6"} :
        (/\ Requested(v)
         /\ ipc = "done"
         /\ UsableOtherFamily(clientIp, v)
         /\ LastEchoFailedFor(v))
        => NoConnectivityAnswer(v)

C10_Witness ==
    /\ Requested("4")
    /\ ireq.cf = Some(CF6)
    /\ Len(iechos) = 1
    /\ iechos[1].reply = Some([kind |-> "throw", ip |-> None])
    /\ NoConnectivityAnswer("4")

----------------------------------------------------------------------------
(* C11 *)

\* The address the three headers yield: cf-connecting-ip, else the first
\* entry of x-forwarded-for, else x-real-ip.
HeaderAddress == OrElse(ireq.cf, OrElse(FirstForwarded(ireq.xff), ireq.realIp))

\* The request itself yields no usable address: no `ip` parameter, and the
\* headers yield nothing or a loopback address.
NoUsableAddress ==
    /\ ipc # "start"
    /\ ~Given(ireq.ipParam)
    /\ (~Given(HeaderAddress) \/ Get(HeaderAddress) \in Loopbacks)

CouldNotDetect == <<"Could", "not", "detect", "IP", "address">>

\* The first echo call has come back with an exception or without an address.
FirstEchoFailed ==
    /\ iechos # <<>>
    /\ IsSome(iechos[1].reply)
    /\ (Get(iechos[1].reply).kind = "throw" \/ ~Given(Get(iechos[1].reply).ip))

\* C11 as stated: whenever the request yields no usable address (no header
\* yields one, or the derived address is 127.0.0.1 or ::1) the endpoint asks
\* the echo service, and when that call throws or yields no address the
\* response is 500 with success = false and 'Could not detect IP address'.
C11_EchoAskedWhenNoUsableAddress ==
    NoUsableAddress
    => /\ iechos # <<>>
       /\ (FirstEchoFailed /\ ipc = "done") => IpFailed(500, CouldNotDetect)

\* C11 amended: the handler with the `version` parameter asks the echo
\* service (api64 for version=6, api otherwise) whenever the headers yield
\* nothing or a loopback address, and answers 500 'Could not detect IP
\* address' without any lookup when that call throws or yields no address;
\* the handler with the `ip` parameter never asks the echo service: without
\* an `ip` parameter it answers 500 'Could not detect IP address' exactly
\* when neither a header nor the connection yields an address, and looks a
\* loopback address up like any other.
C11_EchoAskedByVersionHandler ==
    /\ (variant = "version" /\ NoUsableAddress)
       => /\ iechos # <<>>
          /\ iechos[1].url = IF ireq.version = Some("6") THEN IPIFY64 ELSE IPIFY
          /\ FirstEchoFailed
             => /\ IpFailed(500, CouldNotDetect)
                /\ Len(iechos) = 1
                /\ started = <<>>
    /\ (variant = "version" /\ ipc # "start" /\ ~NoUsableAddress /\ iechos # <<>>)
       => iechos[1].url = IF ireq.version = Some("6") THEN IPIFY64 ELSE IPIFY
    /\ variant = "explicit"
       => /\ iechos = <<>>
          /\ (IpAnswered /\ ~Given(ireq.ipParam))
             => /\ IpFailed(500, CouldNotDetect)
                    <=> (~Given(HeaderAddress) /\ ireq.remoteAddr = <<>>)
                /\ Given(HeaderAddress)
                    => (Get(iresp).success /\ Get(iresp).ip = HeaderAddress)

\* A loopback cf-connecting-ip sent the version handler to the echo service,
\* whose call threw: the response is the 500.
C11_Witness ==
    /\ variant = "version"
    /\ ireq.cf = Some(LOOPBACK4)
    /\ Len(iechos) = 1
    /\ iechos[1].reply = Some([kind |-> "throw", ip |-> None])
    /\ IpFailed(500, CouldNotDetect)

----------------------------------------------------------------------------
(* C12 *)

\* The reply of getIpInfo's n-th provider request, once it has come back.
GeoAnswer(n) == Get(gcalls[n].reply)

GeoAnswered(n) == Len(gcalls) >= n /\ IsSome(gcalls[n].reply)

\* The primary provider failed: a non-OK response, or an exception while
\* fetching or decoding.
PrimaryFailed == GeoAnswered(1) /\ GeoAnswer(1).kind \in {"notok", "throw", "badjson"}

\* The secondary provider failed: as above, or a body whose status is not
\* "success".
SecondaryFailed ==
    /\ GeoAnswered(2)
    /\ \/ GeoAnswer(2).kind \in {"notok", "throw", "badjson"}
       \/ GeoAnswer(2).status # "success"

\* C12: getIpInfo asks the secondary provider if and only if the primary one
\* failed (never after a primary success), for the same address; it returns
\* the primary body on a primary success, null when both providers fail, and
\* its promise is never rejected.
C12_SecondaryOnlyAfterPrimaryFailure ==
    /\ "getIpInfo" \notin rejected
    /\ Len(gcalls) <= 2
    /\ gpc # "idle" => (gcalls # <<>> /\ gcalls[1].target = IPINFO
                        /\ gcalls[1].ip = Get(finalIp))
    /\ Len(gcalls) = 2 <=> PrimaryFailed
    /\ Len(gcalls) = 2 => (gcalls[2].target = IP_API /\ gcalls[2].ip = gcalls[1].ip)
    /\ gpc = "done"
       => /\ GeoAnswered(Len(gcalls))
          /\ ~PrimaryFailed
             => ipInfo = Some([hostname |-> GeoAnswer(1).hostname,
                               city |-> GeoAnswer(1).city])
          /\ (PrimaryFailed /\ SecondaryFailed) => ipInfo = None
          /\ (PrimaryFailed /\ ~SecondaryFailed)
             => ipInfo = Some([hostname |-> None, city |-> GeoAnswer(2).city])

\* The primary request threw, the secondary replied with status "fail":
\* getIpInfo returned null.
C12_Witness ==
    /\ gpc = "done"
    /\ Len(gcalls) = 2
    /\ GeoAnswered(2)
    /\ GeoAnswer(1).kind = "throw"
    /\ GeoAnswer(2).kind = "json"
    /\ GeoAnswer(2).status = "fail"
    /\ ipInfo = None

----------------------------------------------------------------------------
(* C13 *)

PtrAnswered == pcalls # <<>> /\ IsSome(pcalls[1].reply)

PtrAnswer == Get(pcalls[1].reply)

\* The DoH reply is OK and decodes to a body with at least one answer.
HasPtrAnswer ==
    /\ PtrAnswered
    /\ PtrAnswer.kind = "json"
    /\ IsSome(PtrAnswer.Answer)
    /\ Get(PtrAnswer.Answer) # <<>>

\* t is d with one trailing "." removed, if d has one.
OneTrailingDotRemoved(d, t) ==
    IF d # <<>> /\ d[Len(d)] = "." THEN d = t \o <<".">> ELSE d = t

\* C13: getPtrRecord returns the data of the first answer with one trailing
\* "." removed when the DoH reply is OK and carries at least one answer, null
\* when there is no answer, the reply is not OK or the request fails, and null
\* without any request when the name cannot be built (a malformed IPv6 text
\* on which the expansion fails); its promise is never rejected.
C13_PtrRecordOrNull ==
    /\ "getPtrRecord" \notin rejected
    /\ Len(pcalls) <= 1
    /\ ppc = "pending" => (pcalls # <<>> /\ ~PtrAnswered)
    /\ ppc = "done"
       => /\ pcalls # <<>> => PtrAnswered
          /\ HasPtrAnswer
             => /\ IsSome(ptrRecord)
                /\ OneTrailingDotRemoved(Get(PtrAnswer.Answer)[1], Get(ptrRecord))
          /\ ~HasPtrAnswer => ptrRecord = None

\* An address of nine groups passed the character test of the `ip` parameter;
\* its expansion failed, no DoH request was made and getPtrRecord returned null.
C13_Witness ==
    /\ ppc = "done"
    /\ IsSome(finalIp)
    /\ Len(Split(Get(finalIp), ":")) = 9
    /\ pcalls = <<>>
    /\ ptrRecord = None
    /\ "getPtrRecord" \notin rejected

----------------------------------------------------------------------------
(* C14 *)

\* C14: once an address has been resolved, both lookups are started for that
\* same address, the response is sent only after both have completed, and it
\* is a success whatever they returned: it carries the resolved ip, version
\* "IPv6" exactly when the ip contains ":", and no hostname or city where the
\* lookups gave none.
C14_LookupFailureIsNotFatal ==
    /\ IsSome(finalIp)
       => /\ started = <<[fn |-> "getIpInfo", ip |-> Get(finalIp)],
                         [fn |-> "getPtrRecord", ip |-> Get(finalIp)]>>
          /\ gcalls[1].ip = Get(finalIp)
          /\ pcalls # <<>> => pcalls[1].ip = Get(finalIp)
    /\ started # <<>> => IsSome(finalIp)
    /\ (IsSome(iresp) /\ IsSome(finalIp))
       => /\ gpc = "done"
          /\ ppc = "done"
          /\ Get(iresp).status = 200
          /\ Get(iresp).success
          /\ Get(iresp).error = None
          /\ Get(iresp).ip = finalIp
          /\ Get(iresp).version
                = Some(IF \E i \in 1..Len(Get(finalIp)) : Get(finalIp)[i] = ":"
                       THEN "IPv6" ELSE "IPv4")
          /\ ipInfo = None => Get(iresp).city = None
          /\ (ipInfo = None /\ ptrRecord = None) => Get(iresp).hostname = None
          /\ (IsSome(ptrRecord) /\ Get(ptrRecord) # <<>>)
             => Get(iresp).hostname = ptrRecord

\* Both geolocation providers and the PTR request failed, and the response is
\* a success without hostname and city.
C14_Witness ==
    /\ IpAnswered
    /\ IsSome(finalIp)
    /\ PrimaryFailed
    /\ SecondaryFailed
    /\ PtrAnswered
    /\ PtrAnswer.kind = "throw"
    /\ Get(iresp).success
    /\ Get(iresp).hostname = None
    /\ Get(iresp).city = None

----------------------------------------------------------------------------
(* C15 - C18 : the address utilities *)

HexDigits == Digits \union HexLetters

\* The address is IPv6 and legally spelled: groups of 1 to 4 hex digits, and
\* either one "::" with at most 7 groups around it or exactly 8 groups.
LegalV6 ==
    /\ ain.family = "v6"
    /\ \A g \in {ain.left[i] : i \in 1..Len(ain.left)}
                \union {ain.right[i] : i \in 1..Len(ain.right)} :
          /\ Len(g) \in 1..4
          /\ \A i \in 1..Len(g) : g[i] \in HexDigits
    /\ IF ain.compressed
       THEN Len(ain.left) + Len(ain.right) <= 7
       ELSE Len(ain.left) = 8 /\ ain.right = <<>>

\* The j-th of the 32 hex digits of the address, as spelled: the digits of
\* the left groups from the front, of the right groups from the back, each
\* group filled up to 4 digits with leading "0", and "0" in between.
AddressNibble(j) ==
    LET k == ((j - 1) \div 4) + 1
        pos == ((j - 1) % 4) + 1
        fromEnd == 8 - k
        g == IF k <= Len(ain.left) THEN ain.left[k]
             ELSE IF fromEnd < Len(ain.right)
                  THEN ain.right[Len(ain.right) - fromEnd]
                  ELSE <<>>
    IN  IF pos <= 4 - Len(g) THEN "0" ELSE g[pos - (4 - Len(g))]

EXAMPLE_SHORT == <<"2", "0", "0", "1", ":", "d", "b", "8", ":", ":", "1">>

EXAMPLE_FULL == <<"2", "0", "0", "1", ":", "0", "d", "b", "8", ":", "0", "0", "0", "0", ":", "0", "0", "0", "0", ":", "0", "0", "0", "0", ":", "0", "0", "0", "0", ":", "0", "0", "0", "0", ":", "0", "0", "0", "1">>

\* C15: for a legally spelled IPv6 text expandIPv6 returns exactly 8 groups of
\* 4 characters separated by ":": the left groups padded with leading zeros,
\* then "0000" for every group that "::" stands for, then the right groups
\* padded; "2001:db8::1" gives "2001:0db8:0000:0000:0000:0000:0000:0001".
C15_ExpandsToEightPaddedGroups ==
    (afn = "expandIPv6" /\ LegalV6)
    => /\ IsSome(aout)
       /\ Len(Get(aout)) = 39
       /\ \A j \in 1..32 :
            Get(aout)[j + ((j - 1) \div 4)] = AddressNibble(j)
       /\ \A k \in 1..7 : Get(aout)[5 * k] = ":"
       /\ ain.text = EXAMPLE_SHORT => aout = Some(EXAMPLE_FULL)

C15_Witness ==
    /\ afn = "expandIPv6"
    /\ ain.text = EXAMPLE_SHORT
    /\ aout = Some(EXAMPLE_FULL)

\* C16: the PTR name of a dotted quad a.b.c.d is "d.c.b.a.in-addr.arpa"; the
\* PTR name of a legally spelled IPv6 address is its 32 hex digits in reverse
\* order, one per label, followed by ".ip6.arpa"; the text is taken for IPv6
\* exactly when it contains ":".
C16_PtrName ==
    afn = "ptrDomain"
    => /\ (ain.family = "v4" /\ Len(ain.octets) = 4)
          => aout = Some(Decimal(ain.octets[4]) \o <<".">> \o Decimal(ain.octets[3])
                         \o <<".">> \o Decimal(ain.octets[2]) \o <<".">>
                         \o Decimal(ain.octets[1]) \o <<".", "i", "n", "-", "a", "d", "d", "r", ".", "a", "r", "p", "a">>)
       /\ LegalV6
          => /\ IsSome(aout)
             /\ Len(Get(aout)) = 72
             /\ \A j \in 1..32 : Get(aout)[2 * j - 1] = AddressNibble(33 - j)
             /\ \A j \in 1..31 : Get(aout)[2 * j] = "."
             /\ SubSeq(Get(aout), 64, 72) = <<".", "i", "p", "6", ".", "a", "r", "p", "a">>
       /\ IsSome(aout)
          => LET n == Len(Get(aout))
                 colon == \E i \in 1..Len(ain.text) : ain.text[i] = ":"
             IN  /\ n >= 9
                 /\ colon <=> SubSeq(Get(aout), n - 8, n) = <<".", "i", "p", "6", ".", "a", "r", "p", "a">>
                 /\ ~colon => (n >= 13 /\ SubSeq(Get(aout), n - 12, n) = <<".", "i", "n", "-", "a", "d", "d", "r", ".", "a", "r", "p", "a">>)

C16_Witness ==
    /\ afn = "ptrDomain"
    /\ ain.text = EXAMPLE_SHORT
    /\ IsSome(aout)
    /\ SubSeq(Get(aout), 1, 8) = <<"1", ".", "0", ".", "0", ".", "0", ".">>
    /\ SubSeq(Get(aout), 49, 72) = <<"8", ".", "b", ".", "d", ".", "0", ".", "1", ".", "0", ".", "0", ".", "2", ".", "i", "p", "6", ".", "a", "r", "p", "a">>

\* The number of the upper 16 bits of a dotted quad: none of the blocks has a
\* longer prefix.
UpperHalf(o) == o[1] * 256 + o[2]

\* The number v lies in the block of the given prefix length that holds base.
RECURSIVE Pow2(_)
Pow2(n) == IF n = 0 THEN 1 ELSE 2 * Pow2(n - 1)

InBlock(v, base, length, width) ==
    v \div Pow2(width - length) = base \div Pow2(width - length)

\* C17: for a dotted quad with octets in 0..255 isPrivateIPv4 is true exactly
\* when the address lies in 10.0.0.0/8, 172.16.0.0/12, 192.168.0.0/16,
\* 100.64.0.0/10 or 169.254.0.0/16.
C17_PrivateIPv4Ranges ==
    (afn = "isPrivateIPv4" /\ ain.family = "v4" /\ Len(ain.octets) = 4
        /\ \A i \in 1..4 : ain.octets[i] \in 0..255)
    => (aout <=> \/ InBlock(UpperHalf(ain.octets), UpperHalf(<<10, 0>>), 8, 16)
                 \/ InBlock(UpperHalf(ain.octets), UpperHalf(<<172, 16>>), 12, 16)
                 \/ InBlock(UpperHalf(ain.octets), UpperHalf(<<192, 168>>), 16, 16)
                 \/ InBlock(UpperHalf(ain.octets), UpperHalf(<<100, 64>>), 10, 16)
                 \/ InBlock(UpperHalf(ain.octets), UpperHalf(<<169, 254>>), 16, 16))

\* The last address of the CGNAT block is classified private.
C17_Witness ==
    /\ afn = "isPrivateIPv4"
    /\ ain.octets = <<100, 127, 255, 1>>
    /\ aout = TRUE

HexValue(c) ==
    CASE c \in Digits -> DigitOf(c)
      [] c \in {"a", "A"} -> 10 [] c \in {"b", "B"} -> 11
      [] c \in {"c", "C"} -> 12 [] c \in {"d", "D"} -> 13
      [] c \in {"e", "E"} -> 14 [] c \in {"f", "F"} -> 15

\* The 16-bit number of the k-th group of the address.
GroupValue(k) ==
    ((HexValue(AddressNibble(4 * k - 3)) * 16 + HexValue(AddressNibble(4 * k - 2))) * 16
        + HexValue(AddressNibble(4 * k - 1))) * 16 + HexValue(AddressNibble(4 * k))

\* C18: for every legally spelled IPv6 address isPrivateIPv6 is true exactly
\* when the address lies in fe80::/10 or fc00::/7 or is ::1.
C18_PrivateIPv6Ranges ==
    (afn = "isPrivateIPv6" /\ LegalV6)
    => (aout <=> \/ InBlock(GroupValue(1), 65152, 10, 16)
                 \/ InBlock(GroupValue(1), 64512, 7, 16)
                 \/ /\ \A k \in 1..7 : GroupValue(k) = 0
                    /\ GroupValue(8) = 1)

----------------------------------------------------------------------------
(* C19, C20 : the DNSSEC probes of the island *)

Validates == "Your resolver validates DNSSEC"

TwelveCells ==
    {"ECDSA P-256", "ECDSA P-384", "Ed25519"}
        \X {"valid", "invalid", "expired", "missing"}

\* The cell of algorithm a and test t in the results shown, None when the
\* results have no such cell or the cell is empty.
ShownCell(a, t) ==
    LET gs == {g \in 1..Len(dnssecResults) : dnssecResults[g].algorithm = a}
    IN  IF gs = {} THEN None
        ELSE LET g == CHOOSE x \in gs : TRUE
             IN  IF t \in DOMAIN dnssecResults[g].tests
                 THEN dnssecResults[g].tests[t]
                 ELSE None

AllTwelvePassed ==
    \A c \in TwelveCells :
        /\ IsSome(ShownCell(c[1], c[2]))
        /\ Get(ShownCell(c[1], c[2])).passed = Some(TRUE)

\* C19: once probing is complete the badge reads "Your resolver validates
\* DNSSEC" exactly when all 12 cells hold passed = true; a cell of a failed
\* request, or a cell without passed = true, makes it read otherwise; the
\* badge is not rendered before probing is complete, so it never reads
\* "validates" while a cell is empty.
C19_ValidatesIffAllTwelvePassed ==
    /\ dnssecComplete <=> cpc = "done"
    /\ ~dnssecComplete => Badge = None
    /\ dnssecComplete
       => /\ IsSome(Badge)
          /\ Badge = Some(Validates) <=> AllTwelvePassed
          /\ (\E c \in TwelveCells :
                Get(ShownCell(c[1], c[2])).error = Some("Test failed"))
             => Badge # Some(Validates)
    /\ Badge = Some(Validates)
       => \A c \in TwelveCells : IsSome(ShownCell(c[1], c[2]))

\* Probing is complete, all twelve probes passed and the badge says so.
C19_Witness ==
    /\ dnssecComplete
    /\ AllTwelvePassed
    /\ Badge = Some(Validates)

\* The k-th probe: algorithm-major, the tests in the order valid, invalid,
\* expired, missing.
KthAlgorithm(k) == <<"ecdsa256", "ecdsa384", "ed25519">>[((k - 1) \div 4) + 1]

KthName(k) == <<"ECDSA P-256", "ECDSA P-384", "Ed25519">>[((k - 1) \div 4) + 1]

KthTest(k) == <<"valid", "invalid", "expired", "missing">>[((k - 1) % 4) + 1]

ProbesSettled == Len(creqs) - Cardinality(coutstanding)

\* C20: the probes run strictly one after the other: at most one request to
\* /api/dnssec is in flight, the requests are issued in the fixed order
\* (ecdsa256, ecdsa384, ed25519) x (valid, invalid, expired, missing), each
\* cell is requested exactly once, and a cell is filled only after every
\* earlier cell has been filled.
C20_ProbesSequentialInOrder ==
    /\ Cardinality(coutstanding) <= 1
    /\ Len(creqs) <= 12
    /\ \A k \in 1..Len(creqs) :
         creqs[k] = [algorithm |-> KthAlgorithm(k), test |-> KthTest(k)]
    /\ coutstanding # {} => coutstanding = {creqs[Len(creqs)]}
    /\ cpc = "running" => Cardinality(coutstanding) = 1
    /\ cpc = "done" => (Len(creqs) = 12 /\ coutstanding = {})
    /\ cpc # "idle"
       => \A k \in 1..12 :
            /\ IsSome(ShownCell(KthName(k), KthTest(k))) <=> k <= ProbesSettled
            /\ IsSome(ShownCell(KthName(k), KthTest(k)))
               => /\ Get(ShownCell(KthName(k), KthTest(k))).testType = KthTest(k)
                  /\ Get(ShownCell(KthName(k), KthTest(k))).algorithm = KthName(k)

\* Six probes have settled and the seventh, ecdsa384 / expired, is in flight.
C20_Witness ==
    /\ cpc = "running"
    /\ Len(creqs) = 7
    /\ coutstanding = {[algorithm |-> "ecdsa384", test |-> "expired"]}
    /\ IsSome(ShownCell("ECDSA P-384", "invalid"))
    /\ ShownCell("ECDSA P-384", "expired") = None

----------------------------------------------------------------------------
(* C24 *)

\* C24: for test type "missing", a query that came back with DNS status
\* SERVFAIL (the validating resolver rejected the unsigned answer) is reported
\* as passed, as it is for "invalid" and "expired".
C24_MissingRejectionPasses ==
    (/\ doutcomes # <<>>
     /\ testType = "missing"
     /\ HasDnsStatus(Last(doutcomes))
     /\ Last(doutcomes).Status = 2)
    => /\ result.passed
       /\ Answered => Get(dresp).passed = Some(TRUE)

\* An address of either family is private.
IsPrivate(ip) == IF HasChar(ip, ":") THEN isPrivateIPv6(ip) ELSE isPrivateIPv4(ip)

\* The addresses on the page that came from ICE candidates.
Surfaced ==
    { webrtcIps[i] : i \in 1..Len(webrtcIps) }
    \union { Get(d) : d \in { x \in {detectedIps.ipv4, detectedIps.ipv6} : IsSome(x) } }
    \union { Get(c).ip : c \in { x \in {ipv4Info, ipv6Info} : IsSome(x) } }

NoDuplicates(list) ==
    \A i, j \in 1..Len(list) : i # j => list[i] # list[j]

\* C21 as stated: every address surfaced from ICE candidates is publicly
\* routable, is no ".local" name, and appears at most once.
C21_SurfacedArePublic ==
    /\ \A ip \in Surfaced : ~IsPrivate(ip) /\ ~EndsWith(ip, <<".", "l", "o", "c", "a", "l">>)
    /\ NoDuplicates(webrtcIps)

\* C21: no surfaced address is empty, a ".local" name or a braced
\* placeholder, and the harvested list holds each address once;
\* detectIPsViaWebRTC keeps at most one address per family, of that family
\* and not private, and shows no other address; detectWebRTCIPs does not
\* look at whether an address is private.
C21_SurfacedAreFiltered ==
    /\ \A ip \in Surfaced :
        /\ ip # <<>>
        /\ ~EndsWith(ip, <<".", "l", "o", "c", "a", "l">>)
        /\ ~HasChar(ip, "{")
    /\ NoDuplicates(webrtcIps)
    /\ wfn = "detectIPsViaWebRTC" =>
        /\ \A ip \in Surfaced : ~IsPrivate(ip)
        /\ IsSome(detectedIps.ipv4) => ~HasChar(Get(detectedIps.ipv4), ":")
        /\ IsSome(detectedIps.ipv6) => HasChar(Get(detectedIps.ipv6), ":")
        /\ IsSome(ipv4Info) => Some(Get(ipv4Info).ip) = detectedIps.ipv4
        /\ IsSome(ipv6Info) => Some(Get(ipv6Info).ip) = detectedIps.ipv6
        /\ webrtcIps = <<>>

\* Both families were detected and are shown after the connection closed.
C21_Witness ==
    /\ wfn = "detectIPsViaWebRTC"
    /\ closes = 1
    /\ IsSome(ipv4Info) /\ Get(ipv4Info).ip = PUBLIC4
    /\ IsSome(ipv6Info) /\ Get(ipv6Info).ip = PUBLIC6

\* The function awaits the promise of lines 111-125 / 581-595.
Waiting == wpc = "waiting"

\* The wait of the function has ended.
WaitEnded == waitPromise = "resolved"

\* C22: once the local description is set, the wait for ICE gathering has
\* ended exactly when the gathering state is "complete" (at once when it
\* already was) or the timer has fired; the connection is closed only after
\* the wait ended and at most once, also when both signals occur; and the
\* wait is followed by the close in every execution, whether or not
\* completion is ever signalled.
C22_WaitEndsAndClosesOnce ==
    /\ [](Waiting => (WaitEnded <=> (iceGatheringState = "complete" \/ timer = "fired")))
    /\ [](closes > 0 => WaitEnded)
    /\ [](closes <= 1)
    /\ [](wpc \in {"idle", "offer", "setting"} => closes = 0 /\ waitPromise = "none")
    /\ (Waiting ~> closes = 1)

\* Gathering completed and the timer fired as well; the connection was closed once.
C22_Witness ==
    /\ closes = 1
    /\ iceGatheringState = "complete"
    /\ timer = "fired"

\* The cells of one family, once loading is over, hold an address record and
\* no message, or a non-empty message and no record.
SettledCells(info, error) ==
    \/ /\ IsSome(info) /\ ~IsSome(error)
       /\ Get(info).ip # <<>>
       /\ Get(info).version \in {"IPv4", "IPv6"}
    \/ /\ ~IsSome(info) /\ IsSome(error)
       /\ Get(error) # ""

CellCount == Len(algorithms) * Len(testTypes)

Filled(results) ==
    IF results = <<>> THEN {}
    ELSE { k \in 1..CellCount : IsSome(CellAt(results, k)) }

\* The cell stored when the request or the decoding of its answer failed.
IsFailureCell(cell) ==
    /\ cell.passed = Some(FALSE)
    /\ cell.error = Some("Test failed")
    /\ cell.domain = Some("")

\* C26: dnssecComplete is true only when all 12 cells hold a result; every
\* settled request fills exactly the next cell, whatever it came back with,
\* and the cell of a failed request ("Test failed") has passed = false; a
\* filled cell is never emptied or changed; and when every request settles, also
\* with a failure, dnssecComplete becomes true and stays true.
C26_CompleteAfterAllCells ==
    /\ [](dnssecComplete => Cardinality(Filled(dnssecResults)) = 12)
    /\ [](dnssecComplete <=> cpc = "done")
    /\ [](\A k \in Filled(dnssecResults) :
            Get(CellAt(dnssecResults, k)).error = Some("Test failed")
            => IsFailureCell(Get(CellAt(dnssecResults, k))))
    /\ [][\A k \in Filled(dnssecResults) :
            /\ k \in Filled(dnssecResults')
            /\ CellAt(dnssecResults', k) = CellAt(dnssecResults, k)]_vars
    /\ [][cpc = "running" /\ creqs' # creqs
          => Filled(dnssecResults') = Filled(dnssecResults) \union {Len(creqs)}]_vars
    /\ [][dnssecComplete => dnssecComplete']_vars
    /\ <>dnssecComplete

\* Every one of the 12 requests failed, and the run completed.
C26_Witness ==
    /\ dnssecComplete
    /\ \A k \in 1..CellCount :
        /\ IsSome(CellAt(dnssecResults, k))
        /\ IsFailureCell(Get(CellAt(dnssecResults, k)))

\* The cells each task of the mount effect writes.
AddressCells == <<v4cells, v6cells>>

DnssecCells == <<dnssecResults, dnssecLoading, dnssecComplete>>

\* The address cells as detectIPs alone leaves them at each of its awaits.
DetectAlone ==
    /\ ipdpc \in {"idle", "v4"}
       => /\ ipv4Loading /\ ipv4Info = None /\ ipv4Error = None
    /\ ipdpc \in {"idle", "v4", "v6"}
       => /\ ipv6Loading /\ ipv6Info = None /\ ipv6Error = None
    /\ ipdpc \in {"v6", "done"}
       => /\ ~ipv4Loading /\ SettledCells(ipv4Info, ipv4Error)
    /\ ipdpc = "done"
       => /\ ~ipv6Loading /\ SettledCells(ipv6Info, ipv6Error)

\* The harvested list as detectWebRTCIPs alone leaves it.
HarvestAlone ==
    /\ webrtcIps # <<>> => wpc \in {"setting", "waiting", "done"} /\ iceGatheringState # "new"
    /\ NoDuplicates(webrtcIps)
    /\ \A i \in 1..Len(webrtcIps) :
        \E e \in IceEvents : HarvestedAddress(e) = Some(webrtcIps[i])

\* The DNSSEC cells as runDnssecTests alone leaves them.
DnssecAlone ==
    /\ cpc = "idle" => dnssecResults = <<>>
    /\ cpc # "idle" => Filled(dnssecResults) = 1..(Len(creqs) - Cardinality(coutstanding))
    /\ dnssecComplete <=> cpc = "done"
    /\ dnssecLoading <=> cpc # "done"

\* C23: the three tasks of the mount effect write disjoint cells: a step
\* that writes the address cells is a step of detectIPs and leaves the state
\* of the other two tasks as it is, and likewise for the harvested list and
\* for the DNSSEC cells; under every interleaving, and when another task has
\* failed or stopped, each task's cells are what the task alone leaves at
\* that point of its run.
C23_TasksWriteDisjointCells ==
    /\ [](Together => DetectAlone /\ HarvestAlone /\ DnssecAlone)
    /\ [][Together /\ AddressCells' # AddressCells
          => ipdpc' # ipdpc /\ UNCHANGED <<wvars, cvars>>]_vars
    /\ [][Together /\ webrtcIps' # webrtcIps
          => wfn = "detectWebRTCIPs" /\ UNCHANGED <<pvars, cvars>>]_vars
    /\ [][Together /\ DnssecCells' # DnssecCells
          => (creqs' # creqs \/ cpc' # cpc) /\ UNCHANGED <<pvars, wvars>>]_vars
    /\ [][~Together /\ Together'
          => UNCHANGED <<AddressCells, webrtcIps, dnssecLoading, dnssecComplete>>]_vars

\* detectWebRTCIPs failed at createOffer or setLocalDescription, the IPv4
\* request failed, and the other cells were filled all the same.
C23_Witness ==
    /\ Together
    /\ wpc = "done" /\ closes = 0
    /\ ipdpc = "done"
    /\ ipv4Error = Some("IPv4 detection failed")
    /\ IsSome(ipv6Info)
    /\ dnssecComplete /\ allDnssecPassed

====
